---- MODULE Spec2Model ----
(***************************************************************************)
(* Worker state machine and Gatekeeper engine of the pRuntime control      *)
(* plane (crates/phactory/src/system/mod.rs, standalone/pruntime/enclave/  *)
(* src/system/gk.rs).                                                      *)
(*                                                                         *)
(* Numbers.  FixedPoint is fixed::types::U64F64.  TLC's integers are 32    *)
(* bits wide, so a FixedPoint is modelled by its bit pattern with FracBits *)
(* fractional bits instead of 64: every operation below computes on the    *)
(* bits exactly as the fixed crate does (products and quotients truncate   *)
(* towards zero), only the position of the binary point differs.  FracBits *)
(* is the least width at which every parameter of test_params() is         *)
(* non-zero.  U256 values (hashed_id, seed, online_target) are modelled by *)
(* IdBits-bit naturals.                                                    *)
(***************************************************************************)
EXTENDS Integers, Sequences, FiniteSets, TLC

\* ---------------------------------------------------------------- bounds
\* Messages the model delivers after its initial state
MaxMsgs == 2
\* The last block height at which the model begins a tick
MaxBlock == 32
\* Iterations the benchmark collaborator counts per block
ItersPerBlock == 10
MaxChallenges == 2

\* ------------------------------------------------------- fixed point
FracBits == 13
IdBits == 3

RECURSIVE Pow2(_)
Pow2(n) == IF n = 0 THEN 1 ELSE 2 * Pow2(n - 1)

One == Pow2(FracBits)

Min(a, b) == IF a <= b THEN a ELSE b
Max(a, b) == IF a >= b THEN a ELSE b

\* tokenomic::fp : FixedPoint::from_num(n)
fp(n) == n * One

\* FixedPoint * FixedPoint : floor(a * b / 2^FracBits), computed on the
\* integer and fractional halves so that no intermediate exceeds the result.
FMul(a, b) ==
    LET ah == a \div One
        al == a % One
        bh == b \div One
        bl == b % One
    IN  (ah * bh) * One + ah * bl + al * bh + ((al * bl) \div One)

\* FixedPoint / FixedPoint : floor(a * 2^FracBits / b), by long division.
RECURSIVE DivBits(_, _, _, _)
DivBits(q, r, b, n) ==
    IF n = 0 THEN q
    ELSE IF 2 * r >= b THEN DivBits(2 * q + 1, 2 * r - b, b, n - 1)
         ELSE DivBits(2 * q, 2 * r, b, n - 1)

FDiv(a, b) == DivBits(a \div b, a % b, b, FracBits)

\* FixedPoint / integer and FixedPoint * integer act on the bits.
FDivInt(a, n) == a \div n
FMulInt(a, n) == a * n

\* Double-width naturals [h, l] = h * 2^28 + l, for squares and square roots.
WideBase == Pow2(28)
HalfBase == Pow2(14)

Wide(h, l) == [h |-> h + (l \div WideBase), l |-> l % WideBase]

\* s * s, for s < 2^28
WideSq(s) ==
    LET s1 == s \div HalfBase
        s0 == s % HalfBase
        m  == 2 * s1 * s0
    IN  Wide(s1 * s1 + (m \div HalfBase), (m % HalfBase) * HalfBase + s0 * s0)

WideAdd(x, y) == Wide(x.h + y.h, x.l + y.l)
WideLeq(x, y) == x.h < y.h \/ (x.h = y.h /\ x.l <= y.l)

\* floor(x / 2^FracBits) and x * 2^FracBits
WideShr(x) ==
    LET up == Pow2(28 - FracBits)
    IN  Wide(x.h \div One, (x.h % One) * up + (x.l \div One))
WideShl(x) ==
    LET up == Pow2(28 - FracBits)
    IN  Wide(x.h * One + (x.l \div up), (x.l % up) * One)

\* floor(sqrt(n)) of a double-width n: the largest s in lo..hi with s*s <= n
RECURSIVE ISqrt(_, _, _)
ISqrt(n, lo, hi) ==
    IF lo >= hi THEN lo
    ELSE LET mid == (lo + hi + 1) \div 2
         IN  IF WideLeq(WideSq(mid), n) THEN ISqrt(n, mid, hi)
             ELSE ISqrt(n, lo, mid - 1)

\* tokenomic::pow2 as a double-width FixedPoint (v * v truncated)
pow2(v) == WideShr(WideSq(v))

\* FixedSqrt::sqrt of the double-width FixedPoint x: floor(sqrt(x * 2^FracBits))
FSqrt(x) == ISqrt(WideShl(x), 0, WideBase - 1)

\* ---------------------------------------------------------- Option<T>
None == <<>>
Some(x) == <<x>>
IsSome(o) == o /= <<>>
IsNone(o) == o = <<>>
Unwrap(o) == o[1]

\* ------------------------------------------------- tokenomic (gk.rs)
\* tokenomic::test_params()
pha_rate == fp(1)
rho == FDivInt(fp(10002), 10000)
slash_rate == FDivInt(fp(1), 1000)
budget_per_sec == fp(10)
v_max == fp(30000)
alpha == FDivInt(fp(287), 10000)

conf_score(level) ==
    IF level \in {1, 2, 3} THEN fp(1)
    ELSE IF level = 4 THEN FDivInt(fp(8), 10)
    ELSE IF level = 5 THEN FDivInt(fp(7), 10)
    ELSE fp(0)

\* TokenomicInfo::default()
TokenomicDefault ==
    [v |-> 0, v_last |-> 0, v_update_at |-> 0, iteration_last |-> 0,
     challenge_time_last |-> 0, p_bench |-> 0, p_instant |-> 0,
     confidence_level |-> 0]

\* TokenomicInfo::share
share(t) ==
    FSqrt(WideAdd(pow2(t.v),
                  pow2(FMul(FMul(fp(2), t.p_instant), conf_score(t.confidence_level)))))

\* update_v_idle without the cap at v_max
update_v_idle_nocap(t) ==
    LET cost_idle == FDiv(FDiv(FMul(alpha, t.p_bench) + fp(15), pha_rate), fp(365))
        perf_multiplier == IF t.p_bench = fp(0) THEN fp(1)
                           ELSE FDiv(t.p_instant, t.p_bench)
    IN  [t EXCEPT !.v = t.v + FMul(perf_multiplier, FMul(rho - fp(1), t.v) + cost_idle)]

\* TokenomicInfo::update_v_idle
update_v_idle(t) ==
    LET cost_idle == FDiv(FDiv(FMul(alpha, t.p_bench) + fp(15), pha_rate), fp(365))
        perf_multiplier == IF t.p_bench = fp(0) THEN fp(1)
                           ELSE FDiv(t.p_instant, t.p_bench)
        v == t.v + FMul(perf_multiplier, FMul(rho - fp(1), t.v) + cost_idle)
    IN  [t EXCEPT !.v = Min(v, v_max)]

\* update_v_heartbeat with max in place of min
update_v_heartbeat_max(t, sum_share, now_ms) ==
    IF sum_share = fp(0) THEN [tok |-> t, payout |-> fp(0)]
    ELSE IF t.v < t.v_last THEN [tok |-> t, payout |-> fp(0)]
    ELSE IF now_ms <= t.v_update_at THEN [tok |-> t, payout |-> fp(0)]
    ELSE LET dv == t.v - t.v_last
             dt == FDivInt(fp(now_ms - t.v_update_at), 1000)
             budget == FMul(budget_per_sec, dt)
             w == Max(Max(dv, fp(0)), FMul(FDiv(share(t), sum_share), budget))
         IN  [tok |-> [t EXCEPT !.v = t.v - w, !.v_last = t.v - w,
                                !.v_update_at = now_ms],
              payout |-> w]

\* TokenomicInfo::update_v_heartbeat: the updated info and the payout
update_v_heartbeat(t, sum_share, now_ms) ==
    IF sum_share = fp(0) THEN [tok |-> t, payout |-> fp(0)]
    ELSE IF t.v < t.v_last THEN [tok |-> t, payout |-> fp(0)]
    ELSE IF now_ms <= t.v_update_at THEN [tok |-> t, payout |-> fp(0)]
    ELSE LET dv == t.v - t.v_last
             dt == FDivInt(fp(now_ms - t.v_update_at), 1000)
             budget == FMul(budget_per_sec, dt)
             w == Min(Max(dv, fp(0)), FMul(FDiv(share(t), sum_share), budget))
         IN  [tok |-> [t EXCEPT !.v = t.v - w, !.v_last = t.v - w,
                                !.v_update_at = now_ms],
              payout |-> w]

\* TokenomicInfo::update_v_slash
update_v_slash(t) == [t EXCEPT !.v = t.v - FMul(t.v, slash_rate)]

\* TokenomicInfo::update_p_instant.  iterations - iteration_last is a u64
\* subtraction: when it underflows and the build wraps, p is about 2^64 and
\* the minimum is the cap p_bench * 1.2 (the build that panics is the
\* action's other outcome, see HeartbeatUnderflows).
update_p_instant(t, now, iterations) ==
    IF now <= t.challenge_time_last THEN t
    ELSE LET dt == FDivInt(fp(now - t.challenge_time_last), 1000)
             cap == FDiv(FMul(t.p_bench, fp(12)), fp(10))
             p == FMulInt(FDiv(fp(iterations - t.iteration_last), dt), 6)
         IN  [t EXCEPT !.p_instant =
                 IF iterations < t.iteration_last THEN cap ELSE Min(p, cap)]

\* ------------------------------------------ worker state machine (mod.rs)
\* sp_core::blake2_256(pubkey) as an IdBits-bit number, one value per pubkey
\* (the hash is a collaborator; all the code needs is a fixed value per key).
HashedId(pubkey) == IF pubkey = 1 THEN 5 ELSE IF pubkey = 2 THEN 3 ELSE 6

\* U256 ^ U256, bit by bit
RECURSIVE Xor(_, _, _)
Xor(a, b, n) ==
    IF n = 0 THEN 0
    ELSE (((a % 2) + (b % 2)) % 2) + 2 * Xor(a \div 2, b \div 2, n - 1)

\* WorkerState::new
WorkerStateNew(pubkey) ==
    [pubkey |-> pubkey, hashed_id |-> HashedId(pubkey), registered |-> FALSE,
     bench_state |-> None, mining_state |-> None]

\* WorkerState::need_pause
need_pause(ws) == IsNone(ws.bench_state) /\ IsNone(ws.mining_state)

\* The calls a WorkerStateMachineCallback receives
CbResume == [op |-> "bench_resume"]
CbPause == [op |-> "bench_pause"]
CbReport(start_time, iterations) ==
    [op |-> "bench_report", start_time |-> start_time, iterations |-> iterations]
CbHeartbeat(session_id, block_num, block_time, iterations) ==
    [op |-> "heartbeat", session_id |-> session_id, challenge_block |-> block_num,
     challenge_time |-> block_time, iterations |-> iterations]

\* handle_heartbeat_challenge with the comparison x < online_target
handle_heartbeat_challenge_lt(ws, block, seed_info, iters) ==
    IF ~ws.registered \/ IsNone(ws.mining_state) THEN [state |-> ws, calls |-> <<>>]
    ELSE IF Unwrap(ws.mining_state).state = "Paused" THEN [state |-> ws, calls |-> <<>>]
    ELSE IF Xor(ws.hashed_id, seed_info.seed, IdBits) < seed_info.online_target
    THEN [state |-> ws,
          calls |-> <<CbHeartbeat(Unwrap(ws.mining_state).session_id,
                                  block.block_number, block.now_ms,
                                  iters - Unwrap(ws.mining_state).start_iter)>>]
    ELSE [state |-> ws, calls |-> <<>>]

\* WorkerState::handle_heartbeat_challenge.  block is [block_number, now_ms];
\* iters is what callback.bench_iterations() returns.
handle_heartbeat_challenge(ws, block, seed_info, iters) ==
    IF ~ws.registered THEN [state |-> ws, calls |-> <<>>]
    ELSE IF IsNone(ws.mining_state) THEN [state |-> ws, calls |-> <<>>]
    ELSE IF Unwrap(ws.mining_state).state = "Paused" THEN [state |-> ws, calls |-> <<>>]
    ELSE LET mining_state == Unwrap(ws.mining_state)
             x == Xor(ws.hashed_id, seed_info.seed, IdBits)
             online_hit == x <= seed_info.online_target
         IN  IF online_hit
             THEN [state |-> ws,
                   calls |-> <<CbHeartbeat(mining_state.session_id, block.block_number,
                                           block.now_ms, iters - mining_state.start_iter)>>]
             ELSE [state |-> ws, calls |-> <<>>]

\* process_event whose MiningEnterUnresponsive resumes a paused worker
process_event_toggle(ws, block, event, iters) ==
    IF event.type = "HeartbeatChallenge"
    THEN handle_heartbeat_challenge(ws, block, event, iters)
    ELSE IF event.pubkey /= ws.pubkey THEN [state |-> ws, calls |-> <<>>]
    ELSE LET evt == event.event IN
      CASE evt.kind = "Registered" ->
             [state |-> [ws EXCEPT !.registered = TRUE], calls |-> <<>>]
        [] evt.kind = "BenchStart" ->
             [state |-> [ws EXCEPT !.bench_state =
                            Some([start_block |-> block.block_number,
                                  start_time |-> block.now_ms,
                                  start_iter |-> iters,
                                  duration |-> evt.duration])],
              calls |-> <<CbResume>>]
        [] evt.kind = "BenchScore" -> [state |-> ws, calls |-> <<>>]
        [] evt.kind = "MiningStart" ->
             [state |-> [ws EXCEPT !.mining_state =
                            Some([session_id |-> evt.session_id, state |-> "Mining",
                                  start_time |-> block.now_ms, start_iter |-> iters])],
              calls |-> <<CbResume>>]
        [] evt.kind = "MiningStop" ->
             LET ns == [ws EXCEPT !.mining_state = None]
             IN  [state |-> ns,
                  calls |-> IF need_pause(ns) THEN <<CbPause>> ELSE <<>>]
        [] evt.kind = "MiningEnterUnresponsive" ->
             IF IsSome(ws.mining_state)
             THEN [state |-> [ws EXCEPT !.mining_state[1].state =
                                IF @ = "Mining" THEN "Paused" ELSE "Mining"],
                   calls |-> <<>>]
             ELSE [state |-> ws, calls |-> <<>>]
        [] evt.kind = "MiningExitUnresponsive" ->
             IF IsSome(ws.mining_state) /\ Unwrap(ws.mining_state).state = "Paused"
             THEN [state |-> [ws EXCEPT !.mining_state[1].state = "Mining"],
                   calls |-> <<>>]
             ELSE [state |-> ws, calls |-> <<>>]

\* WorkerState::process_event: the new state and the callback calls, in order
process_event(ws, block, event, iters) ==
    IF event.type = "HeartbeatChallenge"
    THEN handle_heartbeat_challenge(ws, block, event, iters)
    ELSE IF event.pubkey /= ws.pubkey THEN [state |-> ws, calls |-> <<>>]
    ELSE LET evt == event.event IN
      CASE evt.kind = "Registered" ->
             [state |-> [ws EXCEPT !.registered = TRUE], calls |-> <<>>]
        [] evt.kind = "BenchStart" ->
             [state |-> [ws EXCEPT !.bench_state =
                            Some([start_block |-> block.block_number,
                                  start_time |-> block.now_ms,
                                  start_iter |-> iters,
                                  duration |-> evt.duration])],
              calls |-> <<CbResume>>]
        [] evt.kind = "BenchScore" -> [state |-> ws, calls |-> <<>>]
        [] evt.kind = "MiningStart" ->
             [state |-> [ws EXCEPT !.mining_state =
                            Some([session_id |-> evt.session_id, state |-> "Mining",
                                  start_time |-> block.now_ms, start_iter |-> iters])],
              calls |-> <<CbResume>>]
        [] evt.kind = "MiningStop" ->
             LET ns == [ws EXCEPT !.mining_state = None]
             IN  [state |-> ns,
                  calls |-> IF need_pause(ns) THEN <<CbPause>> ELSE <<>>]
        [] evt.kind = "MiningEnterUnresponsive" ->
             IF IsSome(ws.mining_state) /\ Unwrap(ws.mining_state).state = "Mining"
             THEN [state |-> [ws EXCEPT !.mining_state[1].state = "Paused"],
                   calls |-> <<>>]
             ELSE [state |-> ws, calls |-> <<>>]
        [] evt.kind = "MiningExitUnresponsive" ->
             IF IsSome(ws.mining_state) /\ Unwrap(ws.mining_state).state = "Paused"
             THEN [state |-> [ws EXCEPT !.mining_state[1].state = "Mining"],
                   calls |-> <<>>]
             ELSE [state |-> ws, calls |-> <<>>]

\* on_block_processed that reports only after the duration has been exceeded
on_block_processed_late(ws, block, iters) ==
    IF IsSome(ws.bench_state)
       /\ block.block_number - Unwrap(ws.bench_state).start_block
              > Unwrap(ws.bench_state).duration
    THEN LET b == Unwrap(ws.bench_state)
             ns == [ws EXCEPT !.bench_state = None]
         IN  [state |-> ns,
              calls |-> <<CbReport(b.start_time, iters - b.start_iter)>>
                        \o (IF need_pause(ns) THEN <<CbPause>> ELSE <<>>)]
    ELSE [state |-> ws, calls |-> <<>>]

\* WorkerState::on_block_processed
on_block_processed(ws, block, iters) ==
    IF IsSome(ws.bench_state)
       /\ block.block_number - Unwrap(ws.bench_state).start_block
              >= Unwrap(ws.bench_state).duration
    THEN LET b == Unwrap(ws.bench_state)
             ns == [ws EXCEPT !.bench_state = None]
         IN  [state |-> ns,
              calls |-> <<CbReport(b.start_time, iters - b.start_iter)>>
                        \o (IF need_pause(ns) THEN <<CbPause>> ELSE <<>>)]
    ELSE [state |-> ws, calls |-> <<>>]

\* ------------------------------------------------------------ inputs
\* Worker public keys (the BTreeMap of the Gatekeeper iterates them ascending)
Workers == {1, 2}
\* The identity of the worker that runs this System
MyPubkey == 1
Sessions == {1, 2}
\* init_v of a MiningStart, by session
InitV(session_id) == IF session_id = 1 THEN fp(1) ELSE v_max
Scores == {5}
Durations == {1, 11}
ConfLevels == {2}
Iterations == {0, 100}
\* (seed, online_target): hits worker 1 only, worker 2 only, nobody, both
\* (the last with hashed_id ^ seed = online_target for worker 1)
Challenges ==
    {[seed |-> 5, online_target |-> 0], [seed |-> 3, online_target |-> 0],
     [seed |-> 0, online_target |-> 0], [seed |-> 3, online_target |-> 6]}

HEARTBEAT_TOLERANCE_WINDOW == 10
\* tests::block_ts: milliseconds per block
BlockMs == 6000
block_ts(block_number) == block_number * BlockMs
\* Block numbers advance by one of these from tick to tick: a pending
\* challenge is then exactly at, or just past, the tolerance window
BlockSteps == {HEARTBEAT_TOLERANCE_WINDOW, HEARTBEAT_TOLERANCE_WINDOW + 1}

WorkerEvents ==
    [kind : {"Registered"}, confidence_level : ConfLevels]
    \cup [kind : {"BenchStart"}, duration : Durations]
    \cup [kind : {"BenchScore"}, score : Scores]
    \cup {[kind |-> "MiningStart", session_id |-> sid, init_v |-> InitV(sid)] :
             sid \in Sessions}
    \cup [kind : {"MiningStop", "MiningEnterUnresponsive", "MiningExitUnresponsive"}]

\* The events the pallet sends about a worker: every kind about the worker
\* that runs this System, and those that register, start and stop about the
\* other, which the Gatekeeper treats alike
WorkerEventsOf(pubkey) ==
    IF pubkey = MyPubkey THEN WorkerEvents
    ELSE {e \in WorkerEvents :
            \/ e.kind \in {"Registered", "MiningStop"}
            \/ e.kind = "MiningStart" /\ e.session_id = 1}

\* SystemEvent
SystemEvents ==
    UNION {{[type |-> "WorkerEvent", pubkey |-> w, event |-> e] :
                e \in WorkerEventsOf(w)} : w \in Workers}
    \cup {[type |-> "HeartbeatChallenge", seed |-> c.seed,
           online_target |-> c.online_target] : c \in Challenges}

\* MessageOrigin
Pallet == [tag |-> "Pallet"]
WorkerOrigin(pubkey) == [tag |-> "Worker", pubkey |-> pubkey]
is_pallet(origin) == origin.tag = "Pallet"

\* ------------------------------------------------------------- state
VARIABLES
    pc,            \* "idle" between ticks, "processing" inside one, "panicked"
    block,         \* BlockInfo of the tick: [block_number, now_ms]
    workers,       \* Gatekeeper.workers: pubkey -> WorkerInfo
    report,        \* GKMessageProcesser.report
    sum_share,     \* GKMessageProcesser.sum_share
    egress,        \* Gatekeeper.egress: the reports pushed, not yet taken
    worker_state,  \* System.worker_state
    sys_egress,    \* System.egress: the worker's own reports, not yet taken
    v_snap,        \* history: pubkey -> tokenomic.v when the tick began
    seen,          \* history: pubkey -> what the tick processed about it
    last,          \* history: the step taken last, with the message it delivered
    n_msgs,        \* messages delivered since the initial state
    system,        \* System: identity key, challenge, master key, engine, ...
    sealed,        \* the sealed master-key file
    chain,         \* block.storage: the gatekeepers the chain lists
    issued,        \* history: the challenges get_worker_key_challenge returned
    verified,      \* history: the payloads verified with success
    rpc,           \* the node's pha_getStorageChanges call in progress
    gk_queue       \* the messages the Gatekeeper's subscriptions hold unread

vars == <<pc, block, workers, report, sum_share, egress, worker_state,
          sys_egress, v_snap, seen, last, n_msgs, system, sealed, chain,
          issued, verified, rpc,
                   gk_queue>>

\* The program state as one record
St ==
    [pc |-> pc, block |-> block, workers |-> workers, report |-> report,
     sum_share |-> sum_share, egress |-> egress, worker_state |-> worker_state,
     sys_egress |-> sys_egress, v_snap |-> v_snap, seen |-> seen]

\* WorkerInfo::new
WorkerInfoNew(pubkey) ==
    [state |-> WorkerStateNew(pubkey), waiting_heartbeats |-> <<>>,
     unresponsive |-> FALSE, tokenomic |-> TokenomicDefault,
     heartbeat_flag |-> FALSE]

\* MiningInfoUpdateEvent::new and is_empty
ReportNew(block_number, now_ms) ==
    [block_number |-> block_number, timestamp_ms |-> now_ms, offline |-> <<>>,
     recovered_to_online |-> <<>>, settle |-> <<>>]
\* is_empty that looks at settle alone
ReportIsEmpty_settle(r) ==
    r.settle = <<>>

ReportIsEmpty(r) == r.offline = <<>> /\ r.recovered_to_online = <<>> /\ r.settle = <<>>

\* benchmark::iteration_counter(), read through WorkerSMDelegate: the
\* collaborator counts at a steady rate
bench_iterations(blk) == blk.block_number * ItersPerBlock

\* The keys of the worker map from the greatest to the least
RECURSIVE SortedKeys_descending(_)
SortedKeys_descending(S) ==
    IF S = {} THEN <<>>
    ELSE LET m == CHOOSE x \in S : \A y \in S : x >= y
         IN  <<m>> \o SortedKeys_descending(S \ {m})

\* The keys of a map in ascending order (BTreeMap iteration order)
RECURSIVE SortedKeys(_)
SortedKeys(S) ==
    IF S = {} THEN <<>>
    ELSE LET m == CHOOSE x \in S : \A y \in S : x <= y
         IN  <<m>> \o SortedKeys(S \ {m})

RECURSIVE SumShare(_, _)
SumShare(ws, keys) ==
    IF keys = <<>> THEN fp(0)
    ELSE share(ws[keys[1]].tokenomic) + SumShare(ws, Tail(keys))

\* System::new and Gatekeeper::new
Construction ==
    [pc |-> "idle", block |-> [block_number |-> 0, now_ms |-> 0],
     workers |-> <<>>, report |-> ReportNew(0, 0), sum_share |-> fp(0),
     egress |-> <<>>, worker_state |-> WorkerStateNew(MyPubkey),
     sys_egress |-> <<>>, v_snap |-> <<>>, seen |-> [w \in Workers |-> {}]]

\* --------------------------------------------------- Gatekeeper (gk.rs)
\* WorkerSMTracker: of all callbacks only heartbeat is overridden; it pushes
\* the challenge block to the back of waiting_heartbeats.
\* TrackerPush with push_front in place of push_back
RECURSIVE TrackerPush_front(_, _)
TrackerPush_front(waiting_heartbeats, calls) ==
    IF calls = <<>> THEN waiting_heartbeats
    ELSE TrackerPush_front(
            IF Head(calls).op = "heartbeat"
            THEN <<Head(calls).challenge_block>> \o waiting_heartbeats
            ELSE waiting_heartbeats,
            Tail(calls))

RECURSIVE TrackerPush(_, _)
TrackerPush(waiting_heartbeats, calls) ==
    IF calls = <<>> THEN waiting_heartbeats
    ELSE TrackerPush(
            IF Head(calls).op = "heartbeat"
            THEN Append(waiting_heartbeats, Head(calls).challenge_block)
            ELSE waiting_heartbeats,
            Tail(calls))

\* WorkerSMDelegate: bench_report and heartbeat push a message to the egress
RECURSIVE DelegatePush(_, _)
DelegatePush(out, calls) ==
    IF calls = <<>> THEN out
    ELSE DelegatePush(
            IF Head(calls).op \in {"heartbeat", "bench_report"}
            THEN Append(out, Head(calls)) ELSE out,
            Tail(calls))

\* Replay that replays the event on the replica but captures no heartbeat
Replay_deaf(info, blk, event) ==
    LET r == process_event(info.state, blk, event, 0)
    IN  [info EXCEPT !.state = r.state]

\* Replay that hands a WorkerEvent to every replica as if addressed to it
Replay_unaddressed(info, blk, event) ==
    LET e == IF event.type = "WorkerEvent"
             THEN [event EXCEPT !.pubkey = info.state.pubkey] ELSE event
        r == process_event(info.state, blk, e, 0)
    IN  [info EXCEPT !.state = r.state,
                     !.waiting_heartbeats = TrackerPush(@, r.calls)]

\* The replay loop of process_system_event, for one worker
Replay(info, blk, event) ==
    LET r == process_event(info.state, blk, event, 0)
    IN  [info EXCEPT !.state = r.state,
                     !.waiting_heartbeats = TrackerPush(@, r.calls)]

\* The tokenomic of a MiningStart that keeps the previous p_instant
MiningStartTokenomic_keep_instant(prev, init_v, now_ms) ==
    [v |-> init_v, v_last |-> init_v, v_update_at |-> now_ms,
     iteration_last |-> 0, challenge_time_last |-> now_ms,
     p_bench |-> prev.p_bench, p_instant |-> prev.p_instant,
     confidence_level |-> prev.confidence_level]

\* The tokenomic a MiningStart installs
MiningStartTokenomic(prev, init_v, now_ms) ==
    [v |-> init_v, v_last |-> init_v, v_update_at |-> now_ms,
     iteration_last |-> 0, challenge_time_last |-> now_ms,
     p_bench |-> prev.p_bench, p_instant |-> prev.p_bench,
     confidence_level |-> prev.confidence_level]

SettleInfo(pubkey, v, payout) == [pubkey |-> pubkey, v |-> v, payout |-> payout]

\* process_system_event that creates the record on any WorkerEvent
process_system_event_anyevent(ws, rep, blk, origin, event) ==
    IF ~is_pallet(origin) THEN [workers |-> ws, report |-> rep]
    ELSE
    LET inserted ==
            IF event.type = "WorkerEvent"
               /\ event.pubkey \notin DOMAIN ws
            THEN [k \in DOMAIN ws \cup {event.pubkey} |->
                    IF k \in DOMAIN ws THEN ws[k] ELSE WorkerInfoNew(k)]
            ELSE ws
        replayed == [k \in DOMAIN inserted |-> Replay(inserted[k], blk, event)]
    IN  IF event.type = "WorkerEvent" /\ event.pubkey \in DOMAIN replayed
        THEN LET e == event.event
                 worker == replayed[event.pubkey]
             IN CASE e.kind = "Registered" ->
                       [workers |-> [replayed EXCEPT
                            ![event.pubkey].tokenomic.confidence_level =
                                e.confidence_level],
                        report |-> rep]
                  [] e.kind = "BenchScore" ->
                       [workers |-> [replayed EXCEPT
                            ![event.pubkey].tokenomic.p_bench = fp(e.score)],
                        report |-> rep]
                  [] e.kind = "MiningStart" ->
                       [workers |-> [replayed EXCEPT
                            ![event.pubkey].unresponsive = FALSE,
                            ![event.pubkey].tokenomic =
                                MiningStartTokenomic(worker.tokenomic, e.init_v,
                                                     blk.now_ms)],
                        report |-> rep]
                  [] e.kind = "MiningStop" ->
                       [workers |-> replayed,
                        report |-> [rep EXCEPT !.settle =
                            Append(@, SettleInfo(worker.state.pubkey,
                                                 worker.tokenomic.v, 0))]]
                  [] OTHER -> [workers |-> replayed, report |-> rep]
        ELSE [workers |-> replayed, report |-> rep]

\* process_system_event that settles a MiningStop only for a mining worker
process_system_event_quiet(ws, rep, blk, origin, event) ==
    IF ~is_pallet(origin) THEN [workers |-> ws, report |-> rep]
    ELSE
    LET inserted ==
            IF event.type = "WorkerEvent" /\ event.event.kind = "Registered"
               /\ event.pubkey \notin DOMAIN ws
            THEN [k \in DOMAIN ws \cup {event.pubkey} |->
                    IF k \in DOMAIN ws THEN ws[k] ELSE WorkerInfoNew(k)]
            ELSE ws
        replayed == [k \in DOMAIN inserted |-> Replay(inserted[k], blk, event)]
    IN  IF event.type = "WorkerEvent" /\ event.pubkey \in DOMAIN replayed
        THEN LET e == event.event
                 worker == replayed[event.pubkey]
             IN CASE e.kind = "Registered" ->
                       [workers |-> [replayed EXCEPT
                            ![event.pubkey].tokenomic.confidence_level =
                                e.confidence_level],
                        report |-> rep]
                  [] e.kind = "BenchScore" ->
                       [workers |-> [replayed EXCEPT
                            ![event.pubkey].tokenomic.p_bench = fp(e.score)],
                        report |-> rep]
                  [] e.kind = "MiningStart" ->
                       [workers |-> [replayed EXCEPT
                            ![event.pubkey].unresponsive = FALSE,
                            ![event.pubkey].tokenomic =
                                MiningStartTokenomic(worker.tokenomic, e.init_v,
                                                     blk.now_ms)],
                        report |-> rep]
                  [] e.kind = "MiningStop"
                        /\ IsSome(ws[event.pubkey].state.mining_state) ->
                       [workers |-> replayed,
                        report |-> [rep EXCEPT !.settle =
                            Append(@, SettleInfo(worker.state.pubkey,
                                                 worker.tokenomic.v, 0))]]
                  [] OTHER -> [workers |-> replayed, report |-> rep]
        ELSE [workers |-> replayed, report |-> rep]

\* GKMessageProcesser::process_system_event: the new workers map and report
process_system_event(ws, rep, blk, origin, event) ==
    IF ~is_pallet(origin) THEN [workers |-> ws, report |-> rep]
    ELSE
    LET inserted ==
            IF event.type = "WorkerEvent" /\ event.event.kind = "Registered"
               /\ event.pubkey \notin DOMAIN ws
            THEN [k \in DOMAIN ws \cup {event.pubkey} |->
                    IF k \in DOMAIN ws THEN ws[k] ELSE WorkerInfoNew(k)]
            ELSE ws
        replayed == [k \in DOMAIN inserted |-> Replay(inserted[k], blk, event)]
    IN  IF event.type = "WorkerEvent" /\ event.pubkey \in DOMAIN replayed
        THEN LET e == event.event
                 worker == replayed[event.pubkey]
             IN CASE e.kind = "Registered" ->
                       [workers |-> [replayed EXCEPT
                            ![event.pubkey].tokenomic.confidence_level =
                                e.confidence_level],
                        report |-> rep]
                  [] e.kind = "BenchScore" ->
                       [workers |-> [replayed EXCEPT
                            ![event.pubkey].tokenomic.p_bench = fp(e.score)],
                        report |-> rep]
                  [] e.kind = "MiningStart" ->
                       [workers |-> [replayed EXCEPT
                            ![event.pubkey].unresponsive = FALSE,
                            ![event.pubkey].tokenomic =
                                MiningStartTokenomic(worker.tokenomic, e.init_v,
                                                     blk.now_ms)],
                        report |-> rep]
                  [] e.kind = "MiningStop" ->
                       [workers |-> replayed,
                        report |-> [rep EXCEPT !.settle =
                            Append(@, SettleInfo(worker.state.pubkey,
                                                 worker.tokenomic.v, 0))]]
                  [] OTHER -> [workers |-> replayed, report |-> rep]
        ELSE [workers |-> replayed, report |-> rep]

\* HeartbeatConfirmed that pays an unresponsive worker too
HeartbeatConfirmed_pays(info, rep, blk, ss, pubkey, event) ==
    LET popped == [info EXCEPT !.waiting_heartbeats = Tail(@)]
    IN  IF IsNone(info.state.mining_state)
        THEN [info |-> popped, report |-> rep]
        ELSE IF event.session_id /= Unwrap(info.state.mining_state).session_id
        THEN [info |-> popped, report |-> rep]
        ELSE
        LET tok1 == [update_p_instant(info.tokenomic, blk.now_ms, event.iterations)
                        EXCEPT !.challenge_time_last = event.challenge_time,
                               !.iteration_last = event.iterations]
            flagged == [popped EXCEPT !.heartbeat_flag = TRUE, !.tokenomic = tok1]
            r == update_v_heartbeat(tok1, ss, blk.now_ms)
        IN  [info |-> [flagged EXCEPT !.tokenomic = r.tok],
             report |-> [rep EXCEPT !.settle =
                 Append(@, SettleInfo(pubkey, r.tok.v, r.payout))]]

\* HeartbeatConfirmed that leaves heartbeat_flag alone
HeartbeatConfirmed_noflag(info, rep, blk, ss, pubkey, event) ==
    LET popped == [info EXCEPT !.waiting_heartbeats = Tail(@)]
    IN  IF IsNone(info.state.mining_state)
        THEN [info |-> popped, report |-> rep]
        ELSE IF event.session_id /= Unwrap(info.state.mining_state).session_id
        THEN [info |-> popped, report |-> rep]
        ELSE
        LET tok1 == [update_p_instant(info.tokenomic, blk.now_ms, event.iterations)
                        EXCEPT !.challenge_time_last = event.challenge_time,
                               !.iteration_last = event.iterations]
            flagged == [popped EXCEPT !.tokenomic = tok1]
        IN  IF info.unresponsive
            THEN [info |-> flagged, report |-> rep]
            ELSE LET r == update_v_heartbeat(tok1, ss, blk.now_ms)
                 IN  [info |-> [flagged EXCEPT !.tokenomic = r.tok],
                      report |-> [rep EXCEPT !.settle =
                          Append(@, SettleInfo(pubkey, r.tok.v, r.payout))]]

\* HeartbeatConfirmed without the comparison of session ids
HeartbeatConfirmed_anysession(info, rep, blk, ss, pubkey, event) ==
    LET popped == [info EXCEPT !.waiting_heartbeats = Tail(@)]
    IN  IF IsNone(info.state.mining_state)
        THEN [info |-> popped, report |-> rep]
        ELSE
        LET tok1 == [update_p_instant(info.tokenomic, blk.now_ms, event.iterations)
                        EXCEPT !.challenge_time_last = event.challenge_time,
                               !.iteration_last = event.iterations]
            flagged == [popped EXCEPT !.heartbeat_flag = TRUE, !.tokenomic = tok1]
        IN  IF info.unresponsive
            THEN [info |-> flagged, report |-> rep]
            ELSE LET r == update_v_heartbeat(tok1, ss, blk.now_ms)
                 IN  [info |-> [flagged EXCEPT !.tokenomic = r.tok],
                      report |-> [rep EXCEPT !.settle =
                          Append(@, SettleInfo(pubkey, r.tok.v, r.payout))]]

\* HeartbeatConfirmed that puts its SettleInfo in front of the others
HeartbeatConfirmed_front(info, rep, blk, ss, pubkey, event) ==
    LET popped == [info EXCEPT !.waiting_heartbeats = Tail(@)]
    IN  IF IsNone(info.state.mining_state)
        THEN [info |-> popped, report |-> rep]
        ELSE IF event.session_id /= Unwrap(info.state.mining_state).session_id
        THEN [info |-> popped, report |-> rep]
        ELSE
        LET tok1 == [update_p_instant(info.tokenomic, blk.now_ms, event.iterations)
                        EXCEPT !.challenge_time_last = event.challenge_time,
                               !.iteration_last = event.iterations]
            flagged == [popped EXCEPT !.heartbeat_flag = TRUE, !.tokenomic = tok1]
        IN  IF info.unresponsive
            THEN [info |-> flagged, report |-> rep]
            ELSE LET r == update_v_heartbeat(tok1, ss, blk.now_ms)
                 IN  [info |-> [flagged EXCEPT !.tokenomic = r.tok],
                      report |-> [rep EXCEPT !.settle =
                          <<SettleInfo(pubkey, r.tok.v, r.payout)>> \o @]]

\* The heartbeat arm of process_mining_report for a known worker whose front
\* entry was confirmed: pop it, then the session checks and the payout.
HeartbeatConfirmed(info, rep, blk, ss, pubkey, event) ==
    LET popped == [info EXCEPT !.waiting_heartbeats = Tail(@)]
    IN  IF IsNone(info.state.mining_state)
        THEN [info |-> popped, report |-> rep]
        ELSE IF event.session_id /= Unwrap(info.state.mining_state).session_id
        THEN [info |-> popped, report |-> rep]
        ELSE
        LET tok1 == [update_p_instant(info.tokenomic, blk.now_ms, event.iterations)
                        EXCEPT !.challenge_time_last = event.challenge_time,
                               !.iteration_last = event.iterations]
            flagged == [popped EXCEPT !.heartbeat_flag = TRUE, !.tokenomic = tok1]
        IN  IF info.unresponsive
            THEN [info |-> flagged, report |-> rep]
            ELSE LET r == update_v_heartbeat(tok1, ss, blk.now_ms)
                 IN  [info |-> [flagged EXCEPT !.tokenomic = r.tok],
                      report |-> [rep EXCEPT !.settle =
                          Append(@, SettleInfo(pubkey, r.tok.v, r.payout))]]

\* HeartbeatPoisoned that only looks whether the queue is empty
HeartbeatPoisoned_empty(ws, origin, event) ==
    /\ origin.tag = "Worker"
    /\ origin.pubkey \in DOMAIN ws
    /\ ws[origin.pubkey].waiting_heartbeats = <<>>

\* HeartbeatPoisoned that takes an unknown worker for a poisoned state
HeartbeatPoisoned_unknown(ws, origin, event) ==
    /\ origin.tag = "Worker"
    /\ \/ origin.pubkey \notin DOMAIN ws
       \/ ws[origin.pubkey].waiting_heartbeats = <<>>
       \/ Head(ws[origin.pubkey].waiting_heartbeats) /= event.challenge_block

\* Whether process_mining_report reaches panic!("GK or Worker state poisoned")
HeartbeatPoisoned(ws, origin, event) ==
    /\ origin.tag = "Worker"
    /\ origin.pubkey \in DOMAIN ws
    /\ \/ ws[origin.pubkey].waiting_heartbeats = <<>>
       \/ Head(ws[origin.pubkey].waiting_heartbeats) /= event.challenge_block

\* Whether update_p_instant underflows iterations - iteration_last
HeartbeatUnderflows(ws, blk, origin, event) ==
    /\ origin.tag = "Worker"
    /\ origin.pubkey \in DOMAIN ws
    /\ ~HeartbeatPoisoned(ws, origin, event)
    /\ LET info == ws[origin.pubkey] IN
        /\ IsSome(info.state.mining_state)
        /\ event.session_id = Unwrap(info.state.mining_state).session_id
        /\ blk.now_ms > info.tokenomic.challenge_time_last
        /\ event.iterations < info.tokenomic.iteration_last

\* GKMessageProcesser::process_mining_report when it does not panic
process_mining_report(ws, rep, blk, ss, origin, event) ==
    IF origin.tag /= "Worker" THEN [workers |-> ws, report |-> rep]
    ELSE IF origin.pubkey \notin DOMAIN ws THEN [workers |-> ws, report |-> rep]
    ELSE LET r == HeartbeatConfirmed(ws[origin.pubkey], rep, blk, ss,
                                     origin.pubkey, event)
         IN  [workers |-> [ws EXCEPT ![origin.pubkey] = r.info],
              report |-> r.report]

\* post_process_worker with the offline test run after a recovery as well
post_process_worker_noelse(info, blk) ==
    LET bp == on_block_processed(info.state, blk, 0)
        i0 == [info EXCEPT !.state = bp.state,
                           !.waiting_heartbeats = TrackerPush(@, bp.calls)]
    IN  IF IsNone(i0.state.mining_state)
        THEN [info |-> i0, offline |-> FALSE, recovered |-> FALSE]
        ELSE
        LET recovers == i0.unresponsive /\ i0.heartbeat_flag
            times_out == /\ ~i0.unresponsive \/ recovers
                         /\ i0.waiting_heartbeats /= <<>>
                         /\ blk.block_number - Head(i0.waiting_heartbeats)
                                > HEARTBEAT_TOLERANCE_WINDOW
            i1 == [i0 EXCEPT !.unresponsive =
                      IF times_out THEN TRUE ELSE IF recovers THEN FALSE ELSE @]
            i2 == IF i1.unresponsive
                  THEN [i1 EXCEPT !.tokenomic = update_v_slash(@)]
                  ELSE IF ~i1.heartbeat_flag
                  THEN [i1 EXCEPT !.tokenomic = update_v_idle(@)]
                  ELSE i1
        IN  [info |-> i2, offline |-> times_out, recovered |-> recovers]

\* post_process_worker with >= in place of > in the tolerance comparison
post_process_worker_ge(info, blk) ==
    LET bp == on_block_processed(info.state, blk, 0)
        i0 == [info EXCEPT !.state = bp.state,
                           !.waiting_heartbeats = TrackerPush(@, bp.calls)]
    IN  IF IsNone(i0.state.mining_state)
        THEN [info |-> i0, offline |-> FALSE, recovered |-> FALSE]
        ELSE
        LET recovers == i0.unresponsive /\ i0.heartbeat_flag
            times_out == /\ ~i0.unresponsive
                         /\ i0.waiting_heartbeats /= <<>>
                         /\ blk.block_number - Head(i0.waiting_heartbeats)
                                >= HEARTBEAT_TOLERANCE_WINDOW
            i1 == [i0 EXCEPT !.unresponsive =
                      IF recovers THEN FALSE ELSE IF times_out THEN TRUE ELSE @]
            i2 == IF i1.unresponsive
                  THEN [i1 EXCEPT !.tokenomic = update_v_slash(@)]
                  ELSE IF ~i1.heartbeat_flag
                  THEN [i1 EXCEPT !.tokenomic = update_v_idle(@)]
                  ELSE i1
        IN  [info |-> i2, offline |-> times_out, recovered |-> recovers]

\* post_process_worker that tolerates one block more than the window
post_process_worker_late(info, blk) ==
    LET bp == on_block_processed(info.state, blk, 0)
        i0 == [info EXCEPT !.state = bp.state,
                           !.waiting_heartbeats = TrackerPush(@, bp.calls)]
    IN  IF IsNone(i0.state.mining_state)
        THEN [info |-> i0, offline |-> FALSE, recovered |-> FALSE]
        ELSE
        LET recovers == i0.unresponsive /\ i0.heartbeat_flag
            times_out == /\ ~i0.unresponsive
                         /\ i0.waiting_heartbeats /= <<>>
                         /\ blk.block_number - Head(i0.waiting_heartbeats)
                                > HEARTBEAT_TOLERANCE_WINDOW + 1
            i1 == [i0 EXCEPT !.unresponsive =
                      IF recovers THEN FALSE ELSE IF times_out THEN TRUE ELSE @]
            i2 == IF i1.unresponsive
                  THEN [i1 EXCEPT !.tokenomic = update_v_slash(@)]
                  ELSE IF ~i1.heartbeat_flag
                  THEN [i1 EXCEPT !.tokenomic = update_v_idle(@)]
                  ELSE i1
        IN  [info |-> i2, offline |-> times_out, recovered |-> recovers]

\* The body of the loop of block_post_process, for one worker: the new
\* WorkerInfo and what the worker adds to the report
post_process_worker(info, blk) ==
    LET bp == on_block_processed(info.state, blk, 0)
        i0 == [info EXCEPT !.state = bp.state,
                           !.waiting_heartbeats = TrackerPush(@, bp.calls)]
    IN  IF IsNone(i0.state.mining_state)
        THEN [info |-> i0, offline |-> FALSE, recovered |-> FALSE]
        ELSE
        LET recovers == i0.unresponsive /\ i0.heartbeat_flag
            times_out == /\ ~i0.unresponsive
                         /\ i0.waiting_heartbeats /= <<>>
                         /\ blk.block_number - Head(i0.waiting_heartbeats)
                                > HEARTBEAT_TOLERANCE_WINDOW
            i1 == [i0 EXCEPT !.unresponsive =
                      IF recovers THEN FALSE ELSE IF times_out THEN TRUE ELSE @]
            i2 == IF i1.unresponsive
                  THEN [i1 EXCEPT !.tokenomic = update_v_slash(@)]
                  ELSE IF ~i1.heartbeat_flag
                  THEN [i1 EXCEPT !.tokenomic = update_v_idle(@)]
                  ELSE i1
        IN  [info |-> i2, offline |-> times_out, recovered |-> recovers]

\* The pubkeys, in map order, that block_post_process pushes to a report list
RECURSIVE PushedKeys(_, _, _)
PushedKeys(pp, keys, field) ==
    IF keys = <<>> THEN <<>>
    ELSE (IF pp[keys[1]][field] THEN <<keys[1]>> ELSE <<>>)
         \o PushedKeys(pp, Tail(keys), field)

\* GKMessageProcesser::block_post_process: the new workers map and report
block_post_process(ws, rep, blk) ==
    LET pp == [k \in DOMAIN ws |-> post_process_worker(ws[k], blk)]
        keys == SortedKeys(DOMAIN ws)
    IN  [workers |-> [k \in DOMAIN ws |-> pp[k].info],
         report |-> [rep EXCEPT
            !.offline = @ \o PushedKeys(pp, keys, "offline"),
            !.recovered_to_online = @ \o PushedKeys(pp, keys, "recovered")]]

\* ------------------------------------------------------- the tick
\* System::process_messages up to its message loop, and
\* Gatekeeper::process_messages up to GKMessageProcesser::prepare: the tick
\* takes block b, sum_share is summed, a new report is begun and every
\* heartbeat_flag is reset.
begin_tick(st, b) ==
    [st EXCEPT
        !.pc = "processing",
        !.block = [block_number |-> b, now_ms |-> block_ts(b)],
        !.report = ReportNew(b, block_ts(b)),
        !.sum_share = SumShare(st.workers, SortedKeys(DOMAIN st.workers)),
        !.workers = [k \in DOMAIN st.workers |->
                        [st.workers[k] EXCEPT !.heartbeat_flag = FALSE]],
        !.v_snap = [k \in DOMAIN st.workers |-> st.workers[k].tokenomic.v],
        !.seen = [w \in Workers |-> {}]]

\* What seen records of a system event the Gatekeeper processed
SystemEventTag(ws, origin, event) ==
    IF ~is_pallet(origin) \/ event.type /= "WorkerEvent" THEN "none"
    ELSE IF event.pubkey \notin DOMAIN ws THEN "none"
    ELSE IF event.event.kind = "MiningStart" THEN "start"
    ELSE IF event.event.kind = "MiningStop" THEN "stop"
    ELSE "none"

\* One SystemEvent of the tick: System::process_next_message hands it to the
\* worker's own state machine, GKMessageProcesser::process to the Gatekeeper.
deliver_system_event(st, origin, event) ==
    LET r == process_event(st.worker_state, st.block, event,
                           bench_iterations(st.block))
        g == process_system_event(st.workers, st.report, st.block, origin, event)
    IN  [st EXCEPT
            !.worker_state = IF is_pallet(origin) THEN r.state ELSE @,
            !.sys_egress = IF is_pallet(origin) THEN DelegatePush(@, r.calls) ELSE @,
            !.workers = g.workers,
            !.report = g.report,
            !.seen = IF SystemEventTag(g.workers, origin, event) = "none" THEN @
                     ELSE [@ EXCEPT ![event.pubkey] =
                              @ \cup {SystemEventTag(g.workers, origin, event)}]]

\* What seen records of a heartbeat the Gatekeeper confirmed
HeartbeatTag(ws, origin, event) ==
    IF origin.tag /= "Worker" \/ origin.pubkey \notin DOMAIN ws THEN "none"
    ELSE LET info == ws[origin.pubkey] IN
         IF IsNone(info.state.mining_state) THEN "stale"
         ELSE IF event.session_id /= Unwrap(info.state.mining_state).session_id
         THEN "stale"
         ELSE IF info.unresponsive THEN "live_unresponsive"
         ELSE "live_responsive"

\* One MiningReportEvent of the tick.  wraps tells whether the build wraps on
\* integer overflow (release) or panics (debug).
deliver_mining_report(st, origin, event, wraps) ==
    IF HeartbeatPoisoned(st.workers, origin, event)
    THEN [st EXCEPT !.pc = "panicked"]
    ELSE IF HeartbeatUnderflows(st.workers, st.block, origin, event) /\ ~wraps
    THEN [st EXCEPT !.pc = "panicked",
                    !.workers[origin.pubkey].waiting_heartbeats = Tail(@),
                    !.workers[origin.pubkey].heartbeat_flag = TRUE]
    ELSE LET g == process_mining_report(st.workers, st.report, st.block,
                                        st.sum_share, origin, event)
         IN  [st EXCEPT
                !.workers = g.workers,
                !.report = g.report,
                !.seen = IF HeartbeatTag(st.workers, origin, event) = "none" THEN @
                         ELSE [@ EXCEPT ![origin.pubkey] =
                                  @ \cup {HeartbeatTag(st.workers, origin, event)}]]

\* The end of the tick: WorkerState::on_block_processed of the worker's own
\* state machine, then block_post_process and the push of a non-empty report.
end_tick(st) ==
    LET r == on_block_processed(st.worker_state, st.block,
                                bench_iterations(st.block))
        g == block_post_process(st.workers, st.report, st.block)
    IN  [st EXCEPT
            !.pc = "idle",
            !.worker_state = r.state,
            !.sys_egress = DelegatePush(@, r.calls),
            !.workers = g.workers,
            !.report = g.report,
            !.egress = IF ReportIsEmpty(g.report) THEN @ ELSE Append(@, g.report)]

\* ------------------------------------------- System (phactory, mod.rs)
\* A key pair is a number and is its own public key; a worker's identity key
\* is its pubkey.  OtherIdentity is the key a handover installs.
MasterKeys == {11, 12}
OtherIdentity == 3
IdentityKeys == {MyPubkey, OtherIdentity}

GatekeeperOrigin == [tag |-> "Gatekeeper"]
is_gatekeeper(origin) == origin.tag = "Gatekeeper"

\* sr25519 signing: a signature names its signer and what was signed; one
\* that Signature::try_from rejects is not wellformed
sign_data(key, data) == [wellformed |-> TRUE, signer |-> key, data |-> data]
verify_data(pubkey, sig, data) ==
    sig.wellformed /\ sig.signer = pubkey /\ sig.data = data

\* EncryptedKey: a key sealed to the ecdh key of dest
EncryptedKey(dest, key) == [dest |-> dest, key |-> key]

\* Whether decrypt_key_from gets through aead::decrypt
CanDecrypt(identity_key, encrypted_key) == encrypted_key.dest = identity_key

\* hex::encode of a public key of one byte
HexDigits == <<"0", "1", "2", "3", "4", "5", "6", "7",
               "8", "9", "a", "b", "c", "d", "e", "f">>
HexEncode(byte) == <<HexDigits[(byte \div 16) + 1], HexDigits[(byte % 16) + 1]>>

\* Platform::app_version and the Conditions of RetirePRuntime
AppVersion == <<1, 0, 0>>
VersionLess(a, b) ==
    \/ a[1] < b[1]
    \/ a[1] = b[1] /\ a[2] < b[2]
    \/ a[1] = b[1] /\ a[2] = b[2] /\ a[3] < b[3]
VersionLessThan(v) == [kind |-> "VersionLessThan", version |-> v]
VersionIs(v) == [kind |-> "VersionIs", version |-> v]

\* The engine System.gatekeeper holds, as far as System reads and drives it
GatekeeperNew(master_key) ==
    [master_key |-> master_key, registered_on_chain |-> FALSE,
     master_pubkey_on_chain |-> FALSE]

\* System::new: the master-key history is unsealed, its first key is the
\* master key; no engine, no challenge
SystemNew(identity_key, sealed_history) ==
    [identity_key |-> identity_key,
     last_challenge |-> None,
     master_key |-> IF sealed_history = <<>> THEN None
                    ELSE Some(Head(sealed_history)),
     master_key_history |-> sealed_history,
     gatekeeper |-> None,
     contract_clusters |-> <<>>,
     retired_versions |-> <<>>]

\* master_key::seal and try_unseal: the file holds the history last sealed
seal(master_key_history) == master_key_history
try_unseal(file) == file

\* should_retire with the tuples compared component by component
should_retire_componentwise(condition) ==
    IF condition.kind = "VersionLessThan"
    THEN \E i \in 1..3 : AppVersion[i] < condition.version[i]
    ELSE AppVersion = condition.version

\* System::check_retirement: whether the process aborts
should_retire(condition) ==
    IF condition.kind = "VersionLessThan"
    THEN VersionLess(AppVersion, condition.version)
    ELSE AppVersion = condition.version
check_retirement(retired_versions) ==
    \E i \in 1..Len(retired_versions) : should_retire(retired_versions[i])

\* The handlers below take and return the System with its surroundings as one
\* record y: the fields of System, sealed (the file), sys_egress, egress (the
\* engine's channel), pc and result (what the handler returned).
Panic(y) == [y EXCEPT !.pc = "panicked"]
Err(y, e) == [y EXCEPT !.result = e]

\* handle_master_key_history with < in place of <=
handle_master_key_history_lt(y, master_key_history, need_restart) ==
    IF Len(master_key_history) < Len(y.master_key_history) THEN y
    ELSE LET y1 == [y EXCEPT !.sealed = seal(master_key_history),
                             !.master_key_history = master_key_history]
         IN  IF IsNone(y.master_key)
             THEN [y1 EXCEPT !.master_key = Some(Head(master_key_history)),
                             !.pc = IF need_restart THEN "panicked" ELSE @]
             ELSE y1

\* System::handle_master_key_history
handle_master_key_history(y, master_key_history, need_restart) ==
    IF Len(master_key_history) <= Len(y.master_key_history) THEN y
    ELSE LET y1 == [y EXCEPT !.sealed = seal(master_key_history),
                             !.master_key_history = master_key_history]
         IN  IF IsNone(y.master_key)
             THEN [y1 EXCEPT !.master_key = Some(Head(master_key_history)),
                             !.pc = IF need_restart THEN "panicked" ELSE @]
             ELSE y1

\* System::init_gatekeeper, with its two assertions
init_gatekeeper(y) ==
    IF IsNone(y.master_key) \/ IsSome(y.gatekeeper) THEN Panic(y)
    ELSE [y EXCEPT !.gatekeeper = Some(GatekeeperNew(Unwrap(y.master_key)))]

\* Gatekeeper::register_on_chain and master_pubkey_uploaded
register_on_chain(gatekeeper) == [gatekeeper EXCEPT !.registered_on_chain = TRUE]
master_pubkey_uploaded(gatekeeper) ==
    [gatekeeper EXCEPT !.master_pubkey_on_chain = TRUE]

\* Gatekeeper::share_master_key: the message the engine pushes
share_master_key(gatekeeper, pubkey) ==
    [op |-> "MasterKeyDistribution", dest |-> pubkey,
     encrypted_master_key |-> EncryptedKey(pubkey, gatekeeper.master_key)]

\* Gatekeeper::process_master_key_rotation: the engine pushes its candidate
RotationCandidate(gatekeeper, event, identity_key) ==
    [op |-> "MasterKeyRotation", rotation_id |-> event.rotation_id,
     sender |-> identity_key]

\* Gatekeeper::rotate_master_key
rotate_master_key(gatekeeper, rotation_id, master_key) ==
    [gatekeeper EXCEPT !.master_key = master_key]

\* process_first_gatekeeper_event without the look at the chain storage
process_first_gatekeeper_event_unchecked(y, storage, origin, event, new_key) ==
    IF ~is_pallet(origin) THEN y
    ELSE
    LET mine == y.identity_key = event.pubkey
        y1 == IF mine /\ IsNone(y.master_key)
              THEN handle_master_key_history(y, <<new_key>>, FALSE)
              ELSE y
        y2 == IF ~mine THEN y1
              ELSE IF IsNone(y1.master_key) THEN Panic(y1)
              ELSE [y1 EXCEPT !.sys_egress = Append(@,
                        [op |-> "MasterPubkey",
                         master_pubkey |-> Unwrap(y1.master_key)])]
        y3 == IF y2.pc = "panicked" THEN y2
              ELSE IF IsSome(y2.master_key) THEN init_gatekeeper(y2)
              ELSE y2
    IN  IF y3.pc = "panicked" \/ ~mine THEN y3
        ELSE [y3 EXCEPT !.gatekeeper = Some(register_on_chain(Unwrap(@)))]

\* System::process_first_gatekeeper_event; new_key is what new_sr25519_key
\* draws
process_first_gatekeeper_event(y, storage, origin, event, new_key) ==
    IF ~is_pallet(origin) THEN y
    ELSE IF event.pubkey \notin storage THEN Panic(y)
    ELSE
    LET mine == y.identity_key = event.pubkey
        y1 == IF mine /\ IsNone(y.master_key)
              THEN handle_master_key_history(y, <<new_key>>, FALSE)
              ELSE y
        y2 == IF ~mine THEN y1
              ELSE IF IsNone(y1.master_key) THEN Panic(y1)
              ELSE [y1 EXCEPT !.sys_egress = Append(@,
                        [op |-> "MasterPubkey",
                         master_pubkey |-> Unwrap(y1.master_key)])]
        y3 == IF y2.pc = "panicked" THEN y2
              ELSE IF IsSome(y2.master_key) THEN init_gatekeeper(y2)
              ELSE y2
    IN  IF y3.pc = "panicked" \/ ~mine THEN y3
        ELSE [y3 EXCEPT !.gatekeeper = Some(register_on_chain(Unwrap(@)))]

\* System::process_master_key_rotation
process_master_key_rotation(y, origin, event) ==
    IF ~is_pallet(origin) THEN y
    ELSE IF IsNone(y.gatekeeper) THEN y
    ELSE [y EXCEPT !.egress = Append(@,
              RotationCandidate(Unwrap(y.gatekeeper), event, y.identity_key))]

\* System::process_gatekeeper_launch_event
process_gatekeeper_launch_event(y, storage, origin, event, new_key) ==
    CASE event.kind = "FirstGatekeeper" ->
            process_first_gatekeeper_event(y, storage, origin, event, new_key)
      [] event.kind = "MasterPubkeyOnChain" ->
            IF ~is_pallet(origin) \/ IsNone(y.gatekeeper) THEN y
            ELSE [y EXCEPT !.gatekeeper = Some(master_pubkey_uploaded(Unwrap(@)))]
      [] event.kind = "RotateMasterKey" ->
            process_master_key_rotation(y, origin, event)
      [] event.kind = "MasterPubkeyRotated" -> y

\* System::process_new_gatekeeper_event
process_new_gatekeeper_event(y, storage, origin, event) ==
    IF ~is_pallet(origin) THEN y
    ELSE IF event.pubkey \notin storage THEN Panic(y)
    ELSE IF IsNone(y.gatekeeper) THEN y
    ELSE LET y1 == [y EXCEPT !.egress = Append(@,
                        share_master_key(Unwrap(y.gatekeeper), event.pubkey))]
         IN  IF y.identity_key = event.pubkey
             THEN [y1 EXCEPT !.gatekeeper = Some(register_on_chain(Unwrap(@)))]
             ELSE y1

\* process_remove_gatekeeper_event that forgets the master key only
process_remove_gatekeeper_event_keyonly(y, origin, event) ==
    IF ~is_pallet(origin) THEN y
    ELSE IF y.identity_key = event.pubkey
    THEN [y EXCEPT !.master_key = None]
    ELSE y

\* process_remove_gatekeeper_event that drops the master key and keeps the engine
process_remove_gatekeeper_event_keep_engine(y, origin, event) ==
    IF ~is_pallet(origin) THEN y
    ELSE IF y.identity_key = event.pubkey
    THEN [y EXCEPT !.master_key = None]
    ELSE y

\* System::process_remove_gatekeeper_event
process_remove_gatekeeper_event(y, origin, event) ==
    IF ~is_pallet(origin) THEN y
    ELSE IF y.identity_key = event.pubkey
    THEN [y EXCEPT !.gatekeeper = None, !.master_key = None]
    ELSE y

\* System::process_gatekeeper_change_event
process_gatekeeper_change_event(y, storage, origin, event) ==
    IF event.kind = "GatekeeperRegistered"
    THEN process_new_gatekeeper_event(y, storage, origin, event)
    ELSE process_remove_gatekeeper_event(y, origin, event)

\* System::process_master_key_distribution
process_master_key_distribution(y, origin, event) ==
    IF ~is_gatekeeper(origin) THEN Err(y, "BadOrigin")
    ELSE IF y.identity_key /= event.dest THEN y
    ELSE IF ~CanDecrypt(y.identity_key, event.encrypted_master_key) THEN Panic(y)
    ELSE handle_master_key_history(y, <<event.encrypted_master_key.key>>, TRUE)

\* System::process_master_key_history
process_master_key_history(y, origin, event) ==
    IF ~is_gatekeeper(origin) THEN Err(y, "BadOrigin")
    ELSE IF y.identity_key /= event.dest THEN y
    ELSE IF \E i \in 1..Len(event.encrypted_master_keys) :
               ~CanDecrypt(y.identity_key, event.encrypted_master_keys[i])
    THEN Panic(y)
    ELSE handle_master_key_history(y,
            [i \in 1..Len(event.encrypted_master_keys) |->
                event.encrypted_master_keys[i].key], TRUE)

\* BatchRotateMasterKeyEvent::data_be_signed
data_be_signed(event) ==
    [rotation_id |-> event.rotation_id, secret_keys |-> event.secret_keys]

\* process_batch_rotate_master_key that does not ask the chain about the sender
process_batch_rotate_master_key_anysender(y, storage, origin, event) ==
    IF ~is_gatekeeper(origin) THEN Err(y, "BadOrigin")
    ELSE IF ~verify_data(event.sender, event.sig, data_be_signed(event))
    THEN Err(y, "BadSenderSignature")
    ELSE IF y.identity_key \notin DOMAIN event.secret_keys THEN y
    ELSE IF IsNone(y.gatekeeper) THEN Panic(y)
    ELSE IF ~CanDecrypt(y.identity_key, event.secret_keys[y.identity_key])
    THEN Panic(y)
    ELSE LET new_master_key == event.secret_keys[y.identity_key].key
         IN  [y EXCEPT !.master_key = Some(new_master_key),
                       !.gatekeeper = Some(rotate_master_key(Unwrap(@),
                                          event.rotation_id, new_master_key))]

\* System::process_batch_rotate_master_key
process_batch_rotate_master_key(y, storage, origin, event) ==
    IF ~is_gatekeeper(origin) THEN Err(y, "BadOrigin")
    ELSE IF ~verify_data(event.sender, event.sig, data_be_signed(event))
    THEN Err(y, "BadSenderSignature")
    ELSE IF event.sender \notin storage THEN Err(y, "MasterKeyLeakage")
    ELSE IF y.identity_key \notin DOMAIN event.secret_keys THEN y
    ELSE IF IsNone(y.gatekeeper) THEN Panic(y)
    ELSE IF ~CanDecrypt(y.identity_key, event.secret_keys[y.identity_key])
    THEN Panic(y)
    ELSE LET new_master_key == event.secret_keys[y.identity_key].key
         IN  [y EXCEPT !.master_key = Some(new_master_key),
                       !.gatekeeper = Some(rotate_master_key(Unwrap(@),
                                          event.rotation_id, new_master_key))]

\* System::process_key_distribution_event: an error is logged
process_key_distribution_event(y, storage, origin, event) ==
    CASE event.kind = "MasterKeyDistribution" ->
            process_master_key_distribution(y, origin, event)
      [] event.kind = "MasterKeyRotation" ->
            process_batch_rotate_master_key(y, storage, origin, event)
      [] event.kind = "MasterKeyHistory" ->
            process_master_key_history(y, origin, event)

\* process_cluster_key_distribution that deploys over an existing cluster
process_cluster_key_distribution_overwrite(y, origin, event) ==
    IF ~is_gatekeeper(origin) THEN Err(y, "BadOrigin")
    ELSE IF y.identity_key \notin DOMAIN event.secret_keys THEN y
    ELSE IF ~CanDecrypt(y.identity_key, event.secret_keys[y.identity_key])
    THEN Panic(y)
    ELSE LET cluster_key == event.secret_keys[y.identity_key].key
         IN  [y EXCEPT
                !.contract_clusters =
                    [c \in DOMAIN @ \cup {event.cluster} |->
                        IF c \in DOMAIN @ /\ c /= event.cluster THEN @[c]
                        ELSE [key |-> cluster_key, log_handler |-> None]],
                !.sys_egress = Append(@, [op |-> "ClusterDeployed",
                                          id |-> event.cluster,
                                          pubkey |-> cluster_key])]

\* System::process_cluster_key_distribution
process_cluster_key_distribution(y, origin, event) ==
    IF ~is_gatekeeper(origin) THEN Err(y, "BadOrigin")
    ELSE IF y.identity_key \notin DOMAIN event.secret_keys THEN y
    ELSE IF ~CanDecrypt(y.identity_key, event.secret_keys[y.identity_key])
    THEN Panic(y)
    ELSE IF event.cluster \in DOMAIN y.contract_clusters
    THEN Err(y, "DuplicatedClusterDeploy")
    ELSE LET cluster_key == event.secret_keys[y.identity_key].key
         IN  [y EXCEPT
                !.contract_clusters =
                    [c \in DOMAIN @ \cup {event.cluster} |->
                        IF c \in DOMAIN @ THEN @[c]
                        ELSE [key |-> cluster_key, log_handler |-> None]],
                !.sys_egress = Append(@, [op |-> "ClusterDeployed",
                                          id |-> event.cluster,
                                          pubkey |-> cluster_key])]

\* System::process_cluster_operation_event
process_cluster_operation_event(y, origin, event) ==
    IF event.kind = "DispatchKeys"
    THEN LET r == process_cluster_key_distribution(y, origin, event)
         IN  IF r.pc /= "panicked" /\ r.result /= "Ok"
             THEN [r EXCEPT !.sys_egress = Append(@,
                      [op |-> "ClusterDeploymentFailed", id |-> event.cluster])]
             ELSE r
    ELSE IF event.cluster \in DOMAIN y.contract_clusters
    THEN [y EXCEPT !.contract_clusters[event.cluster].log_handler =
                      Some(event.log_handler)]
    ELSE y

\* System::process_contract_operation_event, for UploadCodeToCluster; uploaded
\* is what Cluster::upload_code answers
process_contract_operation_event(y, origin, event) ==
    IF ~is_pallet(origin) THEN Err(y, "InvalidOrigin")
    ELSE IF event.cluster_id \notin DOMAIN y.contract_clusters
    THEN Err(y, "ClusterNotDeployed")
    ELSE IF ~event.uploaded
    THEN [Err(y, "UploadFailed") EXCEPT !.sys_egress = Append(@,
             [op |-> "CodeUploadFailed", cluster_id |-> event.cluster_id])]
    ELSE [y EXCEPT !.sys_egress = Append(@,
             [op |-> "CodeUploaded", cluster_id |-> event.cluster_id])]

\* System::process_pruntime_management_event; "aborted" is process::abort
process_pruntime_management_event(y, event) ==
    LET y1 == [y EXCEPT !.retired_versions = Append(@, event.condition)]
    IN  IF check_retirement(y1.retired_versions)
        THEN [y1 EXCEPT !.pc = "aborted"]
        ELSE y1

\* System::process_next_message for the topics other than SystemEvent; the
\* handler starts from result "Ok"
process_next_message(y, storage, origin, event, new_key) ==
    LET y0 == [y EXCEPT !.result = "Ok"]
    IN  CASE event.topic = "PRuntimeManagementEvent" ->
                IF ~is_pallet(origin) THEN Err(y0, "InvalidSender")
                ELSE process_pruntime_management_event(y0, event)
          [] event.topic = "GatekeeperLaunch" ->
                process_gatekeeper_launch_event(y0, storage, origin, event, new_key)
          [] event.topic = "GatekeeperChange" ->
                process_gatekeeper_change_event(y0, storage, origin, event)
          [] event.topic = "KeyDistribution" ->
                process_key_distribution_event(y0, storage, origin, event)
          [] event.topic = "ClusterOperation" ->
                process_cluster_operation_event(y0, origin, event)
          [] event.topic = "ContractOperation" ->
                process_contract_operation_event(y0, origin, event)

\* System::get_worker_key_challenge: the challenge returned and cached
WorkerKeyChallengePayload(block_number, now, nonce) ==
    [block_number |-> block_number, now |-> now, nonce |-> nonce]
get_worker_key_challenge(sys, blk, nonce) ==
    LET payload == WorkerKeyChallengePayload(blk.block_number, blk.now_ms, nonce)
    IN  [system |-> [sys EXCEPT !.last_challenge = Some(payload)],
         challenge |-> [payload |-> payload,
                        signature |-> sign_data(sys.identity_key, payload)]]

\* verify_worker_key_challenge that keeps the challenge it used
verify_worker_key_challenge_keep(sys, challenge) ==
    IF IsNone(sys.last_challenge) \/ Unwrap(sys.last_challenge) /= challenge.payload
    THEN [system |-> sys, ok |-> FALSE]
    ELSE [system |-> sys,
          ok |-> verify_data(sys.identity_key, challenge.signature,
                             challenge.payload)]

\* verify_worker_key_challenge that clears the slot whatever it is shown
verify_worker_key_challenge_clearall(sys, challenge) ==
    IF IsNone(sys.last_challenge) \/ Unwrap(sys.last_challenge) /= challenge.payload
    THEN [system |-> [sys EXCEPT !.last_challenge = None], ok |-> FALSE]
    ELSE [system |-> [sys EXCEPT !.last_challenge = None],
          ok |-> verify_data(sys.identity_key, challenge.signature,
                             challenge.payload)]

\* System::verify_worker_key_challenge
verify_worker_key_challenge(sys, challenge) ==
    IF IsNone(sys.last_challenge) \/ Unwrap(sys.last_challenge) /= challenge.payload
    THEN [system |-> sys, ok |-> FALSE]
    ELSE [system |-> [sys EXCEPT !.last_challenge = None],
          ok |-> verify_data(sys.identity_key, challenge.signature,
                             challenge.payload)]

\* System::update_worker_key, for a key this worker can decrypt
update_worker_key(sys, encrypted_key) ==
    [sys EXCEPT !.identity_key = encrypted_key.key]

\* System::gatekeeper_status
gatekeeper_status(sys) ==
    LET active == IF IsSome(sys.gatekeeper)
                  THEN Unwrap(sys.gatekeeper).registered_on_chain
                  ELSE FALSE
        has_key == IsSome(sys.master_key)
    IN  [role |-> IF has_key /\ active THEN "Active"
                  ELSE IF has_key THEN "Dummy"
                  ELSE "None",
         master_public_key |-> IF has_key THEN HexEncode(Unwrap(sys.master_key))
                               ELSE <<>>]

\* ------------------------------------------------------ initial states
WorkerEvent(pubkey, event) ==
    [type |-> "WorkerEvent", pubkey |-> pubkey, event |-> event]
Registered(confidence_level) ==
    [kind |-> "Registered", confidence_level |-> confidence_level]
MiningStart(session_id) ==
    [kind |-> "MiningStart", session_id |-> session_id, init_v |-> InitV(session_id)]
ChallengeBoth == [type |-> "HeartbeatChallenge", seed |-> 3, online_target |-> 6]

RECURSIVE DeliverAll(_, _)
DeliverAll(st, events) ==
    IF events = <<>> THEN st
    ELSE DeliverAll(deliver_system_event(st, Pallet, Head(events)), Tail(events))

\* A whole tick at block b that delivers the pallet's events
RunTick(st, b, events) == end_tick(DeliverAll(begin_tick(st, b), events))

\* The first block of a run: both workers register, start mining session 1
\* and are challenged, once or twice.
SetupEvents ==
    <<WorkerEvent(1, Registered(2)), WorkerEvent(2, Registered(2)),
      WorkerEvent(1, MiningStart(1)), WorkerEvent(2, MiningStart(1)),
      ChallengeBoth, ChallengeBoth>>

\* The states a run of the model starts in: the state after construction, and
\* the states the first tick leaves when it delivered a prefix of SetupEvents.
InitStates ==
    {Construction} \cup
    {RunTick(Construction, HEARTBEAT_TOLERANCE_WINDOW, SubSeq(SetupEvents, 1, n)) :
        n \in {2, 4, 5, 6}}

Init ==
    /\ \E st \in InitStates :
          /\ pc = st.pc
          /\ block = st.block
          /\ workers = st.workers
          /\ report = st.report
          /\ sum_share = st.sum_share
          /\ egress = st.egress
          /\ worker_state = st.worker_state
          /\ sys_egress = st.sys_egress
          /\ v_snap = st.v_snap
          /\ seen = st.seen
    /\ last = [op |-> "Init"]
    /\ n_msgs = 0
    /\ system = SystemNew(MyPubkey, <<>>)
    /\ sealed = <<>>
    /\ chain = {}
    /\ issued = <<>>
    /\ verified = {}
    /\ rpc = [pc |-> "idle"]
    /\ gk_queue = <<>>

\* ------------------------------------------------------------ actions
SetSt(st) ==
    /\ pc' = st.pc
    /\ block' = st.block
    /\ workers' = st.workers
    /\ report' = st.report
    /\ sum_share' = st.sum_share
    /\ egress' = st.egress
    /\ worker_state' = st.worker_state
    /\ sys_egress' = st.sys_egress
    /\ v_snap' = st.v_snap
    /\ seen' = st.seen

BeginTick(step) ==
    /\ pc = "idle"
    /\ block.block_number + step <= MaxBlock
    /\ egress = <<>>
    /\ sys_egress = <<>>
    /\ SetSt(begin_tick(St, block.block_number + step))
    /\ last' = [op |-> "BeginTick"]
    /\ UNCHANGED <<n_msgs, system, sealed, chain, issued, verified, rpc,
                   gk_queue>>

DeliverSystemEvent(origin, event) ==
    /\ pc = "processing"
    /\ n_msgs < MaxMsgs
    /\ n_msgs' = n_msgs + 1
    /\ SetSt(deliver_system_event(St, origin, event))
    /\ last' = [op |-> "SystemEvent", origin |-> origin, event |-> event]
    /\ UNCHANGED <<system, sealed, chain, issued, verified, rpc,
                   gk_queue>>

DeliverMiningReport(origin, event, wraps) ==
    /\ pc = "processing"
    /\ n_msgs < MaxMsgs
    /\ n_msgs' = n_msgs + 1
    /\ SetSt(deliver_mining_report(St, origin, event, wraps))
    /\ last' = [op |-> "MiningReport", origin |-> origin, event |-> event]
    /\ UNCHANGED <<system, sealed, chain, issued, verified, rpc,
                   gk_queue>>

EndTick ==
    /\ pc = "processing"
    /\ SetSt(end_tick(St))
    /\ last' = [op |-> "EndTick"]
    /\ UNCHANGED <<n_msgs, system, sealed, chain, issued, verified, rpc,
                   gk_queue>>

\* The transport takes the signed messages of both egress channels.
TakeEgress ==
    /\ pc = "idle"
    /\ egress /= <<>> \/ sys_egress /= <<>>
    /\ egress' = <<>>
    /\ sys_egress' = <<>>
    /\ last' = [op |-> "TakeEgress"]
    /\ UNCHANGED <<pc, block, workers, report, sum_share, worker_state, v_snap,
                   seen, n_msgs, system, sealed, chain, issued, verified, rpc,
                   gk_queue>>

\* The challenge blocks a heartbeat of the model names: the pending ones of
\* its sender and the current block
ChallengeBlocks(pubkey) ==
    {block.block_number} \cup
    (IF pubkey \in DOMAIN workers
     THEN {workers[pubkey].waiting_heartbeats[i] :
              i \in 1..Len(workers[pubkey].waiting_heartbeats)}
     ELSE {})

Heartbeat(session_id, challenge_block, iterations) ==
    [session_id |-> session_id, challenge_block |-> challenge_block,
     challenge_time |-> block_ts(challenge_block), iterations |-> iterations]

\* The system events a worker sends in the pallet's place
ForgedEvents ==
    {WorkerEvent(2, Registered(2)), WorkerEvent(1, MiningStart(2)), ChallengeBoth}

Next ==
    \/ \E step \in BlockSteps : BeginTick(step)
    \/ \E event \in SystemEvents : DeliverSystemEvent(Pallet, event)
    \/ \E event \in ForgedEvents : DeliverSystemEvent(WorkerOrigin(MyPubkey), event)
    \/ \E w \in Workers, s \in Sessions, it \in Iterations, wraps \in BOOLEAN :
          \E cb \in ChallengeBlocks(w) :
             DeliverMiningReport(WorkerOrigin(w), Heartbeat(s, cb, it), wraps)
    \/ DeliverMiningReport(Pallet, Heartbeat(1, block.block_number, 0), TRUE)
    \/ EndTick
    \/ TakeEgress

Spec == Init /\ [][Next]_vars

\* ------------------------------------------------ the System's tick
\* The System with its surroundings as one record
Sy ==
    [pc |-> pc, result |-> "Ok",
     identity_key |-> system.identity_key,
     last_challenge |-> system.last_challenge,
     master_key |-> system.master_key,
     master_key_history |-> system.master_key_history,
     gatekeeper |-> system.gatekeeper,
     contract_clusters |-> system.contract_clusters,
     retired_versions |-> system.retired_versions,
     sealed |-> sealed, sys_egress |-> sys_egress, egress |-> egress]

SystemOf(y) ==
    [identity_key |-> y.identity_key,
     last_challenge |-> y.last_challenge,
     master_key |-> y.master_key,
     master_key_history |-> y.master_key_history,
     gatekeeper |-> y.gatekeeper,
     contract_clusters |-> y.contract_clusters,
     retired_versions |-> y.retired_versions]

SetSy(y) ==
    /\ pc' = y.pc
    /\ system' = SystemOf(y)
    /\ sealed' = y.sealed
    /\ sys_egress' = y.sys_egress
    /\ egress' = y.egress

\* System::process_next_message for a SystemEvent, and what the engine, if
\* there is one, does with the same event in Gatekeeper::process_messages
system_deliver_system_event(st, sys, origin, event) ==
    IF IsSome(sys.gatekeeper) THEN deliver_system_event(st, origin, event)
    ELSE LET r == process_event(st.worker_state, st.block, event,
                                bench_iterations(st.block))
         IN  IF ~is_pallet(origin) THEN st
             ELSE [st EXCEPT !.worker_state = r.state,
                             !.sys_egress = DelegatePush(@, r.calls)]

\* Gatekeeper::emit_random_number: the message the engine pushes for a block
RandomNumber(blk) == [op |-> "RandomNumber", block_number |-> blk.block_number]

\* The end of System::process_messages: on_block_processed of the worker's
\* state machine, then, if there is an engine, its process_messages and
\* emit_random_number
system_end_tick(st, sys) ==
    IF IsSome(sys.gatekeeper)
    THEN [end_tick(st) EXCEPT !.egress = Append(@, RandomNumber(st.block))]
    ELSE LET r == on_block_processed(st.worker_state, st.block,
                                     bench_iterations(st.block))
         IN  [st EXCEPT !.pc = "idle",
                        !.worker_state = r.state,
                        !.sys_egress = DelegatePush(@, r.calls)]

\* --------------------------------------------- the System's messages
FirstGatekeeper(pubkey) ==
    [topic |-> "GatekeeperLaunch", kind |-> "FirstGatekeeper", pubkey |-> pubkey]
MasterPubkeyOnChain ==
    [topic |-> "GatekeeperLaunch", kind |-> "MasterPubkeyOnChain"]
RotateMasterKey ==
    [topic |-> "GatekeeperLaunch", kind |-> "RotateMasterKey", rotation_id |-> 1]
MasterPubkeyRotated ==
    [topic |-> "GatekeeperLaunch", kind |-> "MasterPubkeyRotated"]
GatekeeperRegistered(pubkey) ==
    [topic |-> "GatekeeperChange", kind |-> "GatekeeperRegistered",
     pubkey |-> pubkey]
GatekeeperUnregistered(pubkey) ==
    [topic |-> "GatekeeperChange", kind |-> "GatekeeperUnregistered",
     pubkey |-> pubkey]
MasterKeyDistribution(dest, key) ==
    [topic |-> "KeyDistribution", kind |-> "MasterKeyDistribution",
     dest |-> dest, encrypted_master_key |-> EncryptedKey(dest, key)]
MasterKeyHistory(dest, keys) ==
    [topic |-> "KeyDistribution", kind |-> "MasterKeyHistory", dest |-> dest,
     encrypted_master_keys |-> [i \in 1..Len(keys) |-> EncryptedKey(dest, keys[i])]]

\* A MasterKeyRotation of sender for the recipients; sig tells how it is
\* signed: by the sender, by someone else, or not wellformed
MasterKeyRotation(sender, sig, recipients, key) ==
    LET unsigned == [rotation_id |-> 1,
                     secret_keys |-> [r \in recipients |-> EncryptedKey(r, key)]]
        signature == sign_data(IF sig = "forged" THEN OtherIdentity ELSE sender,
                               data_be_signed(unsigned))
    IN  [topic |-> "KeyDistribution", kind |-> "MasterKeyRotation",
         rotation_id |-> unsigned.rotation_id, sender |-> sender,
         secret_keys |-> unsigned.secret_keys,
         sig |-> [signature EXCEPT !.wellformed = sig /= "malformed"]]
DispatchKeys(cluster, recipients, key) ==
    [topic |-> "ClusterOperation", kind |-> "DispatchKeys", cluster |-> cluster,
     secret_keys |-> [r \in recipients |-> EncryptedKey(r, key)]]
SetLogReceiver(cluster, log_handler) ==
    [topic |-> "ClusterOperation", kind |-> "SetLogReceiver", cluster |-> cluster,
     log_handler |-> log_handler]
UploadCodeToCluster(cluster_id, uploaded) ==
    [topic |-> "ContractOperation", kind |-> "UploadCodeToCluster",
     cluster_id |-> cluster_id, uploaded |-> uploaded]
RetirePRuntime(condition) ==
    [topic |-> "PRuntimeManagementEvent", kind |-> "RetirePRuntime",
     condition |-> condition]

Message(origin, event) == [origin |-> origin, event |-> event]

\* The messages of the pallet
PalletMessages ==
    {Message(Pallet, e) : e \in
        {FirstGatekeeper(p) : p \in Workers}
        \cup {MasterPubkeyOnChain, RotateMasterKey, MasterPubkeyRotated}
        \cup {GatekeeperRegistered(p) : p \in Workers}
        \cup {GatekeeperUnregistered(p) : p \in Workers}
        \cup {UploadCodeToCluster(1, u) : u \in BOOLEAN}
        \cup {RetirePRuntime(VersionLessThan(<<1, 0, 0>>)),
              RetirePRuntime(VersionLessThan(<<0, 9, 9>>)),
              RetirePRuntime(VersionLessThan(<<1, 0, 1>>)),
              RetirePRuntime(VersionIs(<<1, 0, 0>>)),
              RetirePRuntime(VersionIs(<<1, 0, 1>>))}}

\* The messages signed with the master key
GatekeeperMessages ==
    {Message(GatekeeperOrigin, e) : e \in
        {MasterKeyDistribution(MyPubkey, k) : k \in MasterKeys}
        \cup {MasterKeyDistribution(2, 12)}
        \cup {MasterKeyHistory(MyPubkey, h) : h \in {<<12>>, <<12, 11>>}}
        \cup {MasterKeyRotation(2, sig, {r}, 12) :
                 sig \in {"valid", "forged", "malformed"}, r \in Workers}
        \cup {DispatchKeys(1, {r}, 12) : r \in Workers}
        \cup {DispatchKeys(1, {MyPubkey}, 11)}
        \cup {SetLogReceiver(1, 2)}}

\* Messages of a sender their topic does not admit
UnauthorizedMessages ==
    {Message(GatekeeperOrigin, e) : e \in
        {FirstGatekeeper(MyPubkey), RotateMasterKey, MasterPubkeyOnChain,
         GatekeeperRegistered(2), GatekeeperUnregistered(MyPubkey),
         UploadCodeToCluster(1, TRUE),
         RetirePRuntime(VersionIs(<<1, 0, 0>>))}}
    \cup
    {Message(Pallet, e) : e \in
        {MasterKeyDistribution(MyPubkey, 12), MasterKeyHistory(MyPubkey, <<12, 11>>),
         MasterKeyRotation(2, "valid", {MyPubkey}, 12),
         MasterKeyRotation(2, "forged", {MyPubkey}, 12),
         DispatchKeys(1, {MyPubkey}, 12)}}

SysMessages == PalletMessages \cup GatekeeperMessages \cup UnauthorizedMessages

\* The SystemEvents of the System's runs: none registers a worker
SysSystemEvents ==
    {WorkerEvent(MyPubkey, MiningStart(1)), ChallengeBoth}

\* The gatekeepers the chain storage of a block lists
Storages == {{}, {MyPubkey}, Workers}

\* ------------------------------------------ the System's initial states
\* The System after construction with nothing sealed
FreshSystem ==
    [pc |-> "idle", result |-> "Ok", sealed |-> <<>>, sys_egress |-> <<>>,
     egress |-> <<>>] @@ SystemNew(MyPubkey, <<>>)

\* The process starts again: System::new unseals the history
Restarted(y) ==
    [pc |-> "idle", result |-> "Ok", sealed |-> y.sealed, sys_egress |-> <<>>,
     egress |-> <<>>] @@ SystemNew(y.identity_key, try_unseal(y.sealed))

\* The transport took the messages
Taken(y) == [y EXCEPT !.sys_egress = <<>>, !.egress = <<>>]

\* This worker was launched as the first gatekeeper
Bootstrapped ==
    Taken(process_next_message(FreshSystem, Workers, Pallet,
                               FirstGatekeeper(MyPubkey), 11))
\* This worker got the master key of a gatekeeper and was started again
Received ==
    Restarted(process_next_message(FreshSystem, Workers, GatekeeperOrigin,
                                   MasterKeyDistribution(MyPubkey, 11), 11))
\* ... and then replayed the launch of the first gatekeeper, worker 2
Replayed ==
    Taken(process_next_message(Received, Workers, Pallet, FirstGatekeeper(2), 11))
\* The first gatekeeper was unregistered
Unregistered ==
    Taken(process_next_message(Bootstrapped, Workers, Pallet,
                               GatekeeperUnregistered(MyPubkey), 11))

SysInitStates == {FreshSystem, Bootstrapped, Received, Replayed, Unregistered}

SysInit ==
    /\ \E y \in SysInitStates :
          /\ pc = y.pc
          /\ system = SystemOf(y)
          /\ sealed = y.sealed
          /\ sys_egress = y.sys_egress
          /\ egress = y.egress
          /\ block = IF y \in {FreshSystem, Received} THEN Construction.block
                     ELSE [block_number |-> HEARTBEAT_TOLERANCE_WINDOW,
                           now_ms |-> block_ts(HEARTBEAT_TOLERANCE_WINDOW)]
    /\ chain = Workers
    /\ workers = Construction.workers
    /\ report = Construction.report
    /\ sum_share = Construction.sum_share
    /\ worker_state = Construction.worker_state
    /\ v_snap = Construction.v_snap
    /\ seen = Construction.seen
    /\ issued = <<>>
    /\ verified = {}
    /\ rpc = [pc |-> "idle"]
    /\ gk_queue = <<>>
    /\ last = [op |-> "Init"]
    /\ n_msgs = 0

\* ------------------------------------------------ the System's actions
SysBeginTick(step, listed) ==
    /\ pc = "idle"
    /\ block.block_number + step <= MaxBlock
    /\ egress = <<>>
    /\ sys_egress = <<>>
    /\ SetSt(begin_tick(St, block.block_number + step))
    /\ chain' = listed
    /\ last' = [op |-> "BeginTick"]
    /\ UNCHANGED <<system, sealed, issued, verified, n_msgs, rpc,
                   gk_queue>>

SysSystemEvent(origin, event) ==
    /\ pc = "processing"
    /\ n_msgs < MaxMsgs
    /\ n_msgs' = n_msgs + 1
    /\ SetSt(system_deliver_system_event(St, system, origin, event))
    /\ last' = [op |-> "SystemEvent", origin |-> origin, event |-> event]
    /\ UNCHANGED <<system, sealed, chain, issued, verified, rpc,
                   gk_queue>>

\* SysDeliver that ends the message loop on a handler's error
SysDeliver_stops(origin, event, new_key) ==
    /\ pc = "processing"
    /\ n_msgs < MaxMsgs
    /\ n_msgs' = n_msgs + 1
    /\ LET y == process_next_message(Sy, chain, origin, event, new_key)
       IN  /\ SetSy(IF y.result = "Ok" THEN y ELSE [y EXCEPT !.pc = "idle"])
           /\ last' = [op |-> "Message", origin |-> origin, event |-> event,
                       result |-> y.result]
    /\ UNCHANGED <<block, workers, report, sum_share, worker_state, v_snap, seen,
                   chain, issued, verified, rpc,
                   gk_queue>>

SysDeliver(origin, event, new_key) ==
    /\ pc = "processing"
    /\ n_msgs < MaxMsgs
    /\ n_msgs' = n_msgs + 1
    /\ LET y == process_next_message(Sy, chain, origin, event, new_key)
       IN  /\ SetSy(y)
           /\ last' = [op |-> "Message", origin |-> origin, event |-> event,
                       result |-> y.result]
    /\ UNCHANGED <<block, workers, report, sum_share, worker_state, v_snap, seen,
                   chain, issued, verified, rpc,
                   gk_queue>>

SysEndTick ==
    /\ pc = "processing"
    /\ SetSt(system_end_tick(St, system))
    /\ last' = [op |-> "EndTick"]
    /\ UNCHANGED <<system, sealed, chain, issued, verified, n_msgs, rpc,
                   gk_queue>>

\* The process died and is started again
Restart ==
    /\ pc \in {"panicked", "aborted"}
    /\ SetSy(Restarted(Sy))
    /\ block' = Construction.block
    /\ workers' = Construction.workers
    /\ report' = Construction.report
    /\ sum_share' = Construction.sum_share
    /\ worker_state' = Construction.worker_state
    /\ v_snap' = Construction.v_snap
    /\ seen' = Construction.seen
    /\ last' = [op |-> "Restart"]
    /\ UNCHANGED <<chain, issued, verified, n_msgs, rpc,
                   gk_queue>>

\* System::on_restored: the System of a checkpoint runs check_retirement
OnRestored ==
    /\ pc = "idle"
    /\ pc' = IF check_retirement(system.retired_versions) THEN "aborted" ELSE pc
    /\ last' = [op |-> "Restored"]
    /\ UNCHANGED <<block, workers, report, sum_share, egress, worker_state,
                   sys_egress, v_snap, seen, n_msgs, system, sealed, chain,
                   issued, verified, rpc,
                   gk_queue>>

\* The challenges a caller can present: those issued, those with the
\* signature of another key, and one never issued
Presentable ==
    {issued[i] : i \in 1..Len(issued)}
    \cup {[issued[i] EXCEPT !.signature = sign_data(2, issued[i].payload)] :
             i \in 1..Len(issued)}
    \cup {[payload |-> WorkerKeyChallengePayload(0, 0, 0),
           signature |-> sign_data(system.identity_key,
                                   WorkerKeyChallengePayload(0, 0, 0))]}

\* generate_random_info draws a nonce not drawn before
GetWorkerKeyChallenge ==
    /\ pc = "idle"
    /\ Len(issued) < MaxChallenges
    /\ LET r == get_worker_key_challenge(system, block, Len(issued) + 1)
       IN  /\ system' = r.system
           /\ issued' = Append(issued, r.challenge)
    /\ last' = [op |-> "GetWorkerKeyChallenge"]
    /\ UNCHANGED <<pc, block, workers, report, sum_share, egress, worker_state,
                   sys_egress, v_snap, seen, n_msgs, sealed, chain, verified, rpc,
                   gk_queue>>

VerifyWorkerKeyChallenge(challenge) ==
    /\ pc = "idle"
    /\ LET r == verify_worker_key_challenge(system, challenge)
       IN  /\ system' = r.system
           /\ verified' = IF r.ok THEN verified \cup {challenge.payload}
                          ELSE verified
           /\ last' = [op |-> "VerifyWorkerKeyChallenge",
                       challenge |-> challenge, ok |-> r.ok]
    /\ UNCHANGED <<pc, block, workers, report, sum_share, egress, worker_state,
                   sys_egress, v_snap, seen, n_msgs, sealed, chain, issued, rpc,
                   gk_queue>>

UpdateWorkerKey(key) ==
    /\ pc = "idle"
    /\ key /= system.identity_key
    /\ system' = update_worker_key(system, EncryptedKey(system.identity_key, key))
    /\ last' = [op |-> "UpdateWorkerKey"]
    /\ UNCHANGED <<pc, block, workers, report, sum_share, egress, worker_state,
                   sys_egress, v_snap, seen, n_msgs, sealed, chain, issued,
                   verified, rpc,
                   gk_queue>>

SysNext ==
    \/ \E listed \in Storages : SysBeginTick(HEARTBEAT_TOLERANCE_WINDOW, listed)
    \/ \E origin \in {Pallet, GatekeeperOrigin}, event \in SysSystemEvents :
          SysSystemEvent(origin, event)
    \/ \E m \in SysMessages, new_key \in MasterKeys :
          SysDeliver(m.origin, m.event, new_key)
    \/ SysEndTick
    \/ TakeEgress
    \/ Restart
    \/ OnRestored

SysSpec == SysInit /\ [][SysNext]_vars

\* The calls of the RPC layer between the ticks of a System
RpcNext ==
    \/ SysBeginTick(HEARTBEAT_TOLERANCE_WINDOW, Workers)
    \/ SysEndTick
    \/ TakeEgress
    \/ GetWorkerKeyChallenge
    \/ \E challenge \in Presentable : VerifyWorkerKeyChallenge(challenge)
    \/ \E key \in IdentityKeys : UpdateWorkerKey(key)

RpcSpec == SysInit /\ [][RpcNext]_vars

\* ------------------------------------- the steps of a System tick
\* process_messages after its message loop, statement by statement:
\* worker_state.on_block_processed
worker_block_end(st) ==
    LET r == on_block_processed(st.worker_state, st.block,
                                bench_iterations(st.block))
    IN  [st EXCEPT !.pc = "block_end",
                   !.worker_state = r.state,
                   !.sys_egress = DelegatePush(@, r.calls)]

\* The Gatekeeper's handling of one message of its SystemEvent subscription
gatekeeper_process_message(st, m) ==
    LET g == process_system_event(st.workers, st.report, st.block,
                                  m.origin, m.event)
        tag == SystemEventTag(g.workers, m.origin, m.event)
    IN  [st EXCEPT
            !.workers = g.workers,
            !.report = g.report,
            !.seen = IF tag = "none" THEN @
                     ELSE [@ EXCEPT ![m.event.pubkey] = @ \cup {tag}]]

RECURSIVE gatekeeper_drain(_, _)
gatekeeper_drain(st, queue) ==
    IF queue = <<>> THEN st
    ELSE gatekeeper_drain(gatekeeper_process_message(st, Head(queue)),
                          Tail(queue))

\* gatekeeper.process_messages and emit_random_number, if there is an engine
gatekeeper_process_messages(st, sys, queue) ==
    IF IsNone(sys.gatekeeper) THEN [st EXCEPT !.pc = "contracts"]
    ELSE LET d == gatekeeper_drain(st, queue)
             g == block_post_process(d.workers, d.report, d.block)
         IN  [d EXCEPT
                !.pc = "contracts",
                !.workers = g.workers,
                !.report = g.report,
                !.egress = Append(IF ReportIsEmpty(g.report) THEN @
                                  ELSE Append(@, g.report),
                                  RandomNumber(st.block))]

\* A SystemEvent of the block: the System handles it in its message loop, the
\* engine's own subscription keeps it until gatekeeper.process_messages
TickSystemEvent(origin, event) ==
    /\ pc = "processing"
    /\ n_msgs < MaxMsgs
    /\ n_msgs' = n_msgs + 1
    /\ LET r == process_event(worker_state, block, event,
                              bench_iterations(block))
       IN  IF is_pallet(origin)
           THEN /\ worker_state' = r.state
                /\ sys_egress' = DelegatePush(sys_egress, r.calls)
           ELSE UNCHANGED <<worker_state, sys_egress>>
    /\ gk_queue' = IF IsSome(system.gatekeeper)
                   THEN Append(gk_queue, [origin |-> origin, event |-> event])
                   ELSE gk_queue
    /\ last' = [op |-> "SystemEvent", origin |-> origin, event |-> event]
    /\ UNCHANGED <<pc, block, workers, report, sum_share, egress, v_snap, seen,
                   system, sealed, chain, issued, verified, rpc>>

TickWorkerBlockEnd ==
    /\ pc = "processing"
    /\ SetSt(worker_block_end(St))
    /\ last' = [op |-> "WorkerBlockEnd"]
    /\ UNCHANGED <<system, sealed, chain, issued, verified, n_msgs, rpc,
                   gk_queue>>

TickGatekeeper ==
    /\ pc = "block_end"
    /\ SetSt(gatekeeper_process_messages(St, system, gk_queue))
    /\ gk_queue' = <<>>
    /\ last' = [op |-> "GatekeeperProcessMessages"]
    /\ UNCHANGED <<system, sealed, chain, issued, verified, n_msgs, rpc>>

\* The loop over the contracts: their commands and on_block_end; what the
\* contracts do is outside the model
TickContracts ==
    /\ pc = "contracts"
    /\ pc' = "idle"
    /\ last' = [op |-> "ContractCommands"]
    /\ UNCHANGED <<block, workers, report, sum_share, egress, worker_state,
                   sys_egress, v_snap, seen, n_msgs, system, sealed, chain,
                   issued, verified, rpc, gk_queue>>

TickNext ==
    \/ \E listed \in Storages : SysBeginTick(HEARTBEAT_TOLERANCE_WINDOW, listed)
    \/ \E origin \in {Pallet, GatekeeperOrigin}, event \in SysSystemEvents :
          TickSystemEvent(origin, event)
    \/ \E m \in SysMessages, new_key \in MasterKeys :
          SysDeliver(m.origin, m.event, new_key)
    \/ TickWorkerBlockEnd
    \/ TickGatekeeper
    \/ TickContracts
    \/ TakeEgress

TickSpec == SysInit /\ [][TickNext]_vars

\* ------------------------------------ the node's pha_getStorageChanges
\* The client's block database: the best chain is blocks 0..Tip, a block's
\* hash being its number; a fork leaves it after block ForkPoint, the hash of
\* its block of number n being ForkBase + n.  UnknownHash has no header.
max_number_of_blocks == 10000
Tip == max_number_of_blocks + 3
ForkPoint == 1
ForkBase == 20000
ForkNumbers == (ForkPoint + 1)..(ForkPoint + 2)
ZeroHash == 0 - 1
UnknownHash == 99999
BestHashes == 0..Tip
ForkHashes == {ForkBase + n : n \in ForkNumbers}

\* client.header(id): None when the hash names no block
header(hash) ==
    IF hash \in BestHashes
    THEN Some([number |-> hash,
               parent_hash |-> IF hash = 0 THEN ZeroHash ELSE hash - 1])
    ELSE IF hash \in ForkHashes
    THEN Some([number |-> hash - ForkBase,
               parent_hash |-> IF hash - ForkBase = ForkPoint + 1 THEN ForkPoint
                               ELSE hash - 1])
    ELSE None

\* The StorageChanges of executing a block on its parent's state
StorageChanges(hash) == [block |-> hash]

RpcErr(r, e) == [pc |-> "done", is_archive_mode |-> r.is_archive_mode,
                 from |-> r.from, to |-> r.to, result |-> e, changes |-> <<>>]

\* NodeRpcExt::get_storage_changes and get_storage_changes up to its loop
get_storage_changes(is_archive_mode, from, to) ==
    LET r == [is_archive_mode |-> is_archive_mode, from |-> from, to |-> to]
    IN  IF ~is_archive_mode THEN RpcErr(r, "Unavailable")
        ELSE IF IsNone(header(from)) THEN RpcErr(r, "InvalidBlock")
        ELSE IF IsNone(header(to)) THEN RpcErr(r, "InvalidBlock")
        ELSE LET n_from == Unwrap(header(from)).number
                 n_to == Unwrap(header(to)).number
             IN  IF n_from >= n_to THEN RpcErr(r, "InvalidBlockRange")
                 ELSE IF n_to - n_from > max_number_of_blocks
                 THEN RpcErr(r, "ResourceLimited")
                 ELSE [pc |-> "loop", is_archive_mode |-> is_archive_mode,
                       from |-> from, to |-> to, this_block |-> to,
                       changes |-> <<>>]

\* One pass of the loop that ends at the block after from
get_storage_changes_loop_through(r) ==
    IF IsNone(header(r.this_block)) THEN RpcErr(r, "InvalidBlock")
    ELSE LET parent_hash == Unwrap(header(r.this_block)).parent_hash
             changes == Append(r.changes, StorageChanges(r.this_block))
         IN  IF r.this_block = r.from
             THEN [pc |-> "done", is_archive_mode |-> r.is_archive_mode,
                   from |-> r.from, to |-> r.to, result |-> "Ok",
                   changes |-> changes]
             ELSE [r EXCEPT !.this_block = parent_hash, !.changes = changes]

\* One pass of the loop of get_storage_changes
get_storage_changes_loop(r) ==
    IF IsNone(header(r.this_block)) THEN RpcErr(r, "InvalidBlock")
    ELSE LET parent_hash == Unwrap(header(r.this_block)).parent_hash
             changes == Append(r.changes, StorageChanges(r.this_block))
         IN  IF parent_hash = r.from
             THEN [pc |-> "done", is_archive_mode |-> r.is_archive_mode,
                   from |-> r.from, to |-> r.to, result |-> "Ok",
                   changes |-> changes]
             ELSE [r EXCEPT !.this_block = parent_hash, !.changes = changes]

\* The hashes a caller passes
FromHashes == 0..3 \cup ForkHashes \cup {UnknownHash}
ToHashes == 0..3 \cup {Tip - 1, Tip} \cup ForkHashes \cup {UnknownHash}

NodeUnchanged ==
    UNCHANGED <<pc, block, workers, report, sum_share, egress, worker_state,
                sys_egress, v_snap, seen, n_msgs, system, sealed, chain, issued,
                verified, gk_queue>>

GetStorageChanges(is_archive_mode, from, to) ==
    /\ rpc.pc = "idle"
    /\ rpc' = get_storage_changes(is_archive_mode, from, to)
    /\ last' = [op |-> "GetStorageChanges"]
    /\ NodeUnchanged

GetStorageChangesLoop ==
    /\ rpc.pc = "loop"
    /\ rpc' = get_storage_changes_loop(rpc)
    /\ last' = [op |-> "GetStorageChangesLoop"]
    /\ NodeUnchanged

\* The response is sent; the node takes the next call
Respond ==
    /\ rpc.pc = "done"
    /\ rpc' = [pc |-> "idle"]
    /\ last' = [op |-> "Respond"]
    /\ NodeUnchanged

NodeInit ==
    /\ SysInit
    /\ sealed = <<>>

NodeNext ==
    \/ \E is_archive_mode \in BOOLEAN, from \in FromHashes, to \in ToHashes :
          GetStorageChanges(is_archive_mode, from, to)
    \/ GetStorageChangesLoop
    \/ Respond

NodeSpec == NodeInit /\ [][NodeNext]_vars

\* ===================================================== properties
\* a XOR b as the number whose bit i is set iff bit i of a and of b differ
BitOf(a, i) == (a \div Pow2(i)) % 2
RECURSIVE SumBits(_, _, _)
SumBits(a, b, i) ==
    IF i < 0 THEN 0
    ELSE (IF BitOf(a, i) /= BitOf(b, i) THEN Pow2(i) ELSE 0) + SumBits(a, b, i - 1)

\* The condition of I7 on a WorkerState and a challenge
OnlineHit(ws, c) ==
    /\ ws.registered
    /\ IsSome(ws.mining_state)
    /\ Unwrap(ws.mining_state).state = "Mining"
    /\ SumBits(ws.hashed_id, c.seed, IdBits - 1) <= c.online_target

\* The step delivers a HeartbeatChallenge of the pallet
ChallengeDelivered ==
    /\ last'.op = "SystemEvent"
    /\ is_pallet(last'.origin)
    /\ last'.event.type = "HeartbeatChallenge"

\* The step that delivers challenge c: the own state machine sends one
\* heartbeat iff it is hit, every replica queues the block iff it is hit, and
\* no WorkerState changes.
ChallengeAnswered(c) ==
    /\ worker_state' = worker_state
    /\ IF OnlineHit(worker_state, c)
       THEN /\ Len(sys_egress') = Len(sys_egress) + 1
            /\ SubSeq(sys_egress', 1, Len(sys_egress)) = sys_egress
            /\ sys_egress'[Len(sys_egress')].op = "heartbeat"
            /\ sys_egress'[Len(sys_egress')].session_id =
                   Unwrap(worker_state.mining_state).session_id
            /\ sys_egress'[Len(sys_egress')].challenge_block = block.block_number
       ELSE sys_egress' = sys_egress
    /\ DOMAIN workers' = DOMAIN workers
    /\ \A k \in DOMAIN workers :
          /\ workers'[k].state = workers[k].state
          /\ workers'[k].waiting_heartbeats =
                IF OnlineHit(workers[k].state, c)
                THEN Append(workers[k].waiting_heartbeats, block.block_number)
                ELSE workers[k].waiting_heartbeats

\* C1: a WorkerState, the worker's own or a replica of the Gatekeeper,
\* answers a HeartbeatChallenge with one heartbeat (current session, current
\* block) iff it is registered, its mining state is Mining and
\* hashed_id XOR seed <= online_target, and with none otherwise; the
\* challenge never changes the WorkerState.
C1_HeartbeatIffHit == [][ChallengeDelivered => ChallengeAnswered(last'.event)]_vars

\* A challenge of this block reached worker 1 (own state machine and replica)
\* and missed worker 2, both mining.
C1_Witness ==
    /\ pc = "processing"
    /\ last.op = "SystemEvent"
    /\ last.event.type = "HeartbeatChallenge"
    /\ DOMAIN workers = {1, 2}
    /\ IsSome(workers[1].state.mining_state) /\ IsSome(workers[2].state.mining_state)
    /\ workers[1].waiting_heartbeats /= <<>>
    /\ workers[1].waiting_heartbeats[Len(workers[1].waiting_heartbeats)] = block.block_number
    /\ \A i \in 1..Len(workers[2].waiting_heartbeats) :
          workers[2].waiting_heartbeats[i] /= block.block_number
    /\ sys_egress /= <<>>
    /\ sys_egress[Len(sys_egress)].op = "heartbeat"
    /\ sys_egress[Len(sys_egress)].challenge_block = block.block_number


\* The step delivers a heartbeat whose sender the Gatekeeper knows
HeartbeatDelivered ==
    /\ last'.op = "MiningReport"
    /\ last'.origin.tag = "Worker"
    /\ last'.origin.pubkey \in DOMAIN workers

\* Whether heartbeat event e of worker w names the front of w's queue
MatchesFront(w, e) ==
    /\ workers[w].waiting_heartbeats /= <<>>
    /\ Head(workers[w].waiting_heartbeats) = e.challenge_block

FrontOnly(w, e) ==
    /\ DOMAIN workers' = DOMAIN workers
    /\ \A k \in DOMAIN workers \ {w} : workers'[k] = workers[k]
    /\ pc' = "processing" => MatchesFront(w, e)
    /\ MatchesFront(w, e) =>
          workers'[w].waiting_heartbeats = Tail(workers[w].waiting_heartbeats)
    /\ ~MatchesFront(w, e) =>
          /\ pc' = "panicked"
          /\ workers' = workers
          /\ report' = report

\* C2: the Gatekeeper accepts a heartbeat of a known worker only if its
\* challenge_block is the front of the worker's waiting_heartbeats, and then
\* removes that front entry and no other; if the queue is empty or the front
\* differs, processing panics and nothing is popped.
C2_HeartbeatPopsFront ==
    [][HeartbeatDelivered => FrontOnly(last'.origin.pubkey, last'.event)]_vars

\* A heartbeat was accepted in this tick and a later entry is still pending.
C2_Witness ==
    /\ pc = "processing"
    /\ 1 \in DOMAIN workers
    /\ seen[1] \cap {"stale", "live_responsive", "live_unresponsive"} /= {}
    /\ last.op = "MiningReport"
    /\ workers[1].waiting_heartbeats = <<block.block_number>>

\* Whether a queue of block numbers is ascending, strictly or not
StrictlyAscending(q) == \A i \in 1..Len(q) : \A j \in 1..Len(q) : i < j => q[i] < q[j]
NonDecreasing(q) == \A i \in 1..Len(q) : \A j \in 1..Len(q) : i < j => q[i] <= q[j]

\* C3 as stated: every waiting_heartbeats is strictly ascending.
C3_StrictlyAscending ==
    \A k \in DOMAIN workers : StrictlyAscending(workers[k].waiting_heartbeats)

\* C3, amended: every waiting_heartbeats is ascending but not strictly: no
\* entry is less than the one before it or greater than the current block,
\* and a block number is queued once per challenge of that block that hit.
C3_NonDecreasing ==
    \A k \in DOMAIN workers :
        /\ NonDecreasing(workers[k].waiting_heartbeats)
        /\ \A i \in 1..Len(workers[k].waiting_heartbeats) :
              workers[k].waiting_heartbeats[i] <= block.block_number

\* Two challenges of one block hit worker 1 after an earlier one: the block
\* is queued twice behind the older entry.
C3_Witness ==
    /\ 1 \in DOMAIN workers
    /\ Len(workers[1].waiting_heartbeats) = 3
    /\ workers[1].waiting_heartbeats[1] < workers[1].waiting_heartbeats[2]
    /\ workers[1].waiting_heartbeats[2] = workers[1].waiting_heartbeats[3]

HeartbeatTags == {"stale", "live_responsive", "live_unresponsive"}

\* The step delivers a heartbeat that the Gatekeeper confirms (the front
\* matches) and then ignores: no mining state, or another session
StaleHeartbeatDelivered ==
    /\ HeartbeatDelivered
    /\ pc' = "processing"
    /\ LET info == workers[last'.origin.pubkey] IN
          \/ IsNone(info.state.mining_state)
          \/ last'.event.session_id /= Unwrap(info.state.mining_state).session_id

\* A stale heartbeat only pops the front entry
OnlyPops(w) ==
    /\ workers' = [workers EXCEPT ![w].waiting_heartbeats = Tail(@)]
    /\ report' = report

\* The step ends a tick in which a heartbeat of w's current session was
\* processed while w was unresponsive
EndsTickOfLiveHeartbeat(w) ==
    /\ last'.op = "EndTick"
    /\ "live_unresponsive" \in seen[w]

\* The step delivers the pallet's MiningStart for w
MiningStartDelivered(w) ==
    /\ last'.op = "SystemEvent"
    /\ is_pallet(last'.origin)
    /\ last'.event.type = "WorkerEvent"
    /\ last'.event.pubkey = w
    /\ last'.event.event.kind = "MiningStart"

\* The step clears unresponsive of w
Recovers(w) ==
    /\ w \in DOMAIN workers
    /\ workers[w].unresponsive
    /\ ~workers'[w].unresponsive

\* C4 as stated: a heartbeat that matches the front but is of another session,
\* or comes while mining_state is None, only pops the front (no flag, no
\* SettleInfo, tokenomic and unresponsive unchanged); only a heartbeat of the
\* current session makes an unresponsive worker recover.
C4_OnlyHeartbeatRecovers ==
    [][/\ StaleHeartbeatDelivered => OnlyPops(last'.origin.pubkey)
       /\ \A w \in Workers : Recovers(w) => EndsTickOfLiveHeartbeat(w)]_vars

\* C4, amended: the stale heartbeat only pops the front; unresponsive is
\* cleared only at the end of a block that processed a heartbeat of the
\* current session, or by a MiningStart of the pallet for the worker.
C4_HeartbeatOrStartRecovers ==
    [][/\ StaleHeartbeatDelivered => OnlyPops(last'.origin.pubkey)
       /\ \A w \in Workers :
            Recovers(w) => EndsTickOfLiveHeartbeat(w) \/ MiningStartDelivered(w)]_vars

\* A heartbeat of another session was confirmed for unresponsive worker 1,
\* which stays unresponsive.
C4_Witness ==
    /\ pc = "processing"
    /\ last.op = "MiningReport"
    /\ 1 \in DOMAIN workers
    /\ seen[1] = {"stale"}
    /\ workers[1].unresponsive
    /\ ~workers[1].heartbeat_flag

\* How often pubkey k occurs in a list of pubkeys
RECURSIVE Count(_, _)
Count(list, k) ==
    IF list = <<>> THEN 0
    ELSE (IF Head(list) = k THEN 1 ELSE 0) + Count(Tail(list), k)

\* Whether worker k has a pending challenge older than the tolerance window
Overdue(k) ==
    /\ workers[k].waiting_heartbeats /= <<>>
    /\ block.block_number - Head(workers[k].waiting_heartbeats)
          > HEARTBEAT_TOLERANCE_WINDOW

Mining(k) == IsSome(workers[k].state.mining_state)
V(k) == workers[k].tokenomic.v
Slashed(v) == v - FMul(v, slash_rate)
LiveHeartbeatSeen(k) == seen[k] \cap {"live_responsive", "live_unresponsive"} /= {}

\* The post-block bookkeeping of a mining worker that is responsive
OfflineIffOverdue(k) ==
    /\ Count(report'.offline, k) = Count(report.offline, k) + (IF Overdue(k) THEN 1 ELSE 0)
    /\ workers'[k].unresponsive = Overdue(k)
    /\ Overdue(k) => workers'[k].tokenomic.v = Slashed(V(k))

\* The post-block bookkeeping of a mining worker that is unresponsive and
\* sent no heartbeat of its session in the block
SlashedSilently(k) ==
    /\ workers'[k].unresponsive
    /\ workers'[k].tokenomic.v = Slashed(V(k))
    /\ Count(report'.offline, k) = Count(report.offline, k)
    /\ Count(report'.recovered_to_online, k) = Count(report.recovered_to_online, k)
    /\ report'.settle = report.settle

\* C5: at the end of a block a worker that mines and is responsive is
\* appended to report.offline and marked unresponsive iff its queue is not
\* empty and block_number - front > 10, and is slashed in that block; a
\* worker that stays unresponsive without a heartbeat of its session is
\* slashed once more in each later block and not appended to offline again.
C5_OfflineAfterWindow ==
    [][last'.op = "EndTick" =>
          \A k \in DOMAIN workers :
             /\ (Mining(k) /\ ~workers[k].unresponsive) => OfflineIffOverdue(k)
             /\ (Mining(k) /\ workers[k].unresponsive /\ ~LiveHeartbeatSeen(k))
                   => SlashedSilently(k)]_vars

\* A tick ended in which worker 1, unresponsive since an earlier block, was
\* slashed again and no report names it; worker 2 is exactly 10 blocks behind
\* and still responsive.
C5_Witness ==
    /\ last.op = "EndTick"
    /\ DOMAIN workers = {1, 2}
    /\ workers[1].unresponsive
    /\ Count(report.offline, 1) = 0
    /\ V(1) = Slashed(v_snap[1])
    /\ Mining(2)
    /\ ~workers[2].unresponsive
    /\ workers[2].waiting_heartbeats /= <<>>
    /\ block.block_number - Head(workers[2].waiting_heartbeats)
          = HEARTBEAT_TOLERANCE_WINDOW

\* The step delivers a heartbeat of w's current session that the Gatekeeper
\* confirms, w being unresponsive or not as told
LiveHeartbeatDelivered(unresponsive) ==
    /\ HeartbeatDelivered
    /\ pc' = "processing"
    /\ LET info == workers[last'.origin.pubkey] IN
          /\ IsSome(info.state.mining_state)
          /\ last'.event.session_id = Unwrap(info.state.mining_state).session_id
          /\ info.unresponsive = unresponsive

\* The heartbeat of an unresponsive worker settles nothing
NothingSettled(w) ==
    /\ report' = report
    /\ workers'[w].tokenomic.v = V(w)
    /\ workers'[w].heartbeat_flag

\* The end of the block for a worker that recovers
RecoveryReported(k) ==
    /\ Count(report'.recovered_to_online, k) = 1
    /\ Count(report'.offline, k) = 0
    /\ ~workers'[k].unresponsive
    /\ workers'[k].tokenomic.v = v_snap[k]

\* C6 as stated: when a heartbeat of the current session that matches the
\* front is processed for an unresponsive worker whose mining_state is still
\* present at the end of the block, the worker is appended to
\* recovered_to_online, unresponsive becomes false, that heartbeat produces no
\* SettleInfo, and v at the end of the block is v before the block.
C6_RecoveredInBlock ==
    [][/\ LiveHeartbeatDelivered(TRUE) => NothingSettled(last'.origin.pubkey)
       /\ last'.op = "EndTick" =>
             \A k \in DOMAIN workers :
                ("live_unresponsive" \in seen[k]
                    /\ IsSome(workers'[k].state.mining_state))
                   => RecoveryReported(k)]_vars

\* C6, amended: the same, provided no MiningStart for that worker is
\* processed in the block.
C6_RecoveredUnlessRestarted ==
    [][/\ LiveHeartbeatDelivered(TRUE) => NothingSettled(last'.origin.pubkey)
       /\ last'.op = "EndTick" =>
             \A k \in DOMAIN workers :
                ("live_unresponsive" \in seen[k] /\ "start" \notin seen[k]
                    /\ IsSome(workers'[k].state.mining_state))
                   => RecoveryReported(k)]_vars

\* A tick ended that processed the heartbeat of unresponsive worker 1; the
\* report names it recovered and its v is the v of the start of the block.
C6_Witness ==
    /\ last.op = "EndTick"
    /\ 1 \in DOMAIN workers
    /\ seen[1] = {"live_unresponsive"}
    /\ Count(report.recovered_to_online, 1) = 1
    /\ ~workers[1].unresponsive
    /\ V(1) = v_snap[1]
    /\ report.settle = <<>>

\* The heartbeat of a responsive worker w settles once: v after the payout,
\* and the payout that was deducted
SettledOnce(w) ==
    /\ report'.settle =
          Append(report.settle,
                 [pubkey |-> w, v |-> workers'[w].tokenomic.v,
                  payout |-> V(w) - workers'[w].tokenomic.v])
    /\ V(w) >= workers'[w].tokenomic.v
    /\ report'.offline = report.offline
    /\ report'.recovered_to_online = report.recovered_to_online
    /\ workers'[w].heartbeat_flag
    /\ ~workers'[w].unresponsive

\* The end of the block for a worker whose heartbeat settled: no idle reward,
\* no recovery, and offline (with the slash) only if a further challenge is
\* overdue
NoIdleReward(k) ==
    /\ Count(report'.recovered_to_online, k) = 0
    /\ Count(report'.offline, k) = (IF Overdue(k) THEN 1 ELSE 0)
    /\ workers'[k].tokenomic.v = (IF Overdue(k) THEN Slashed(V(k)) ELSE V(k))

\* C7: a heartbeat of the current session that matches the front, from a
\* worker that is not unresponsive, appends exactly one SettleInfo with the
\* payout of update_v_heartbeat and v after the payout; heartbeat_flag is set,
\* so the end of the block applies no update_v_idle to the worker, and
\* offline / recovered_to_online gain no entry for it unless a further
\* pending challenge is overdue.
C7_HeartbeatSettles ==
    [][/\ LiveHeartbeatDelivered(FALSE) => SettledOnce(last'.origin.pubkey)
       /\ last'.op = "EndTick" =>
             \A k \in DOMAIN workers :
                ("live_responsive" \in seen[k] /\ Mining(k)) => NoIdleReward(k)]_vars

\* A tick ended in which the heartbeat of responsive worker 1 settled a
\* payout; the worker keeps the v of the SettleInfo.
C7_Witness ==
    /\ last.op = "EndTick"
    /\ 1 \in DOMAIN workers
    /\ seen[1] = {"live_responsive"}
    /\ Len(report.settle) = 1
    /\ report.settle[1].pubkey = 1
    /\ report.settle[1].payout > 0
    /\ report.settle[1].v = V(1)
    /\ Count(report.offline, 1) = 0

\* Worker k mines, is responsive, got no heartbeat in the block and has no
\* overdue challenge
Idle(k) ==
    /\ Mining(k)
    /\ ~workers[k].unresponsive
    /\ seen[k] \cap HeartbeatTags = {}
    /\ ~Overdue(k)

\* update_v_idle is applied once and nothing is reported
IdleUpdated(k) ==
    /\ workers'[k].tokenomic = update_v_idle(workers[k].tokenomic)
    /\ ~workers'[k].unresponsive
    /\ Count(report'.offline, k) = 0
    /\ Count(report'.recovered_to_online, k) = 0
    /\ report'.settle = report.settle
    /\ workers'[k].tokenomic.v <= v_max

\* The performance multiplier of update_v_idle is at least 1
FullPerformance(k) ==
    \/ workers[k].tokenomic.p_bench = fp(0)
    \/ workers[k].tokenomic.p_instant >= workers[k].tokenomic.p_bench

\* C8 as stated: in a block in which a mining, responsive worker gets no
\* heartbeat and has no overdue challenge, update_v_idle is applied once, no
\* report is made on its account, it stays responsive, v strictly increases
\* and v does not exceed v_max.
C8_IdleRewarded ==
    [][last'.op = "EndTick" =>
          \A k \in DOMAIN workers :
             Idle(k) => IdleUpdated(k) /\ workers'[k].tokenomic.v > V(k)]_vars

\* C8, amended: the same, but v strictly increases only when it was below
\* v_max and the performance multiplier is at least 1; otherwise it does not
\* decrease (v not above v_max before).
C8_IdleRewardedBelowCap ==
    [][last'.op = "EndTick" =>
          \A k \in DOMAIN workers :
             Idle(k) =>
                /\ IdleUpdated(k)
                /\ V(k) <= v_max => workers'[k].tokenomic.v >= V(k)
                /\ (V(k) < v_max /\ FullPerformance(k))
                      => workers'[k].tokenomic.v > V(k)]_vars

\* A tick ended that left worker 1 idle: its v grew, and no report names it.
C8_Witness ==
    /\ last.op = "EndTick"
    /\ 1 \in DOMAIN workers
    /\ IsSome(workers[1].state.mining_state)
    /\ ~workers[1].unresponsive
    /\ seen[1] = {}
    /\ 1 \in DOMAIN v_snap
    /\ V(1) > v_snap[1]
    /\ V(1) < v_max
    /\ ReportIsEmpty(report)

\* What update_v_heartbeat did in the step, for worker w with tokenomic t
\* before and u after, and payout w_paid: the guards, else the bounds
PayoutBounded(t, u, w_paid) ==
    LET now == block.now_ms
        bound == FMul(FDiv(share([t EXCEPT !.p_instant = u.p_instant]), sum_share),
                      FMul(budget_per_sec, FDivInt(fp(now - t.v_update_at), 1000)))
    IN  IF sum_share = fp(0) \/ t.v < t.v_last \/ now <= t.v_update_at
        THEN /\ w_paid = 0
             /\ u.v = t.v
             /\ u.v_last = t.v_last
             /\ u.v_update_at = t.v_update_at
        ELSE /\ 0 <= w_paid
             /\ w_paid <= bound
             /\ w_paid <= t.v - t.v_last
             /\ u.v = t.v - w_paid
             /\ u.v_last = u.v
             /\ u.v_update_at = now

Reports == {report} \cup {egress[i] : i \in 1..Len(egress)}

\* C10: in every report of the Gatekeeper a pubkey occurs at most once in
\* offline and recovered_to_online together.
C10_OncePerReport ==
    \A r \in Reports : \A k \in Workers :
        Count(r.offline \o r.recovered_to_online, k) <= 1

\* A pushed report names both workers, each once.
C10_Witness ==
    /\ egress /= <<>>
    /\ LET r == egress[Len(egress)] IN
          /\ Len(r.offline \o r.recovered_to_online) = 2
          /\ Count(r.offline \o r.recovered_to_online, 1) = 1
          /\ Count(r.offline \o r.recovered_to_online, 2) = 1
          /\ r.recovered_to_online /= <<>>

\* The step delivers the pallet's MiningStop for a worker the Gatekeeper knows
MiningStopDelivered ==
    /\ last'.op = "SystemEvent"
    /\ is_pallet(last'.origin)
    /\ last'.event.type = "WorkerEvent"
    /\ last'.event.event.kind = "MiningStop"
    /\ last'.event.pubkey \in DOMAIN workers

\* The report of the tick holds a SettleInfo that a MiningStop produced
StopSettled == \E w \in Workers : "stop" \in seen[w]

\* The step appends one entry to the end of report.settle
SettleAppended ==
    /\ Len(report'.settle) = Len(report.settle) + 1
    /\ SubSeq(report'.settle, 1, Len(report.settle)) = report.settle

RegisteredDelivered(w) ==
    /\ last'.op = "SystemEvent"
    /\ is_pallet(last'.origin)
    /\ last'.event.type = "WorkerEvent"
    /\ last'.event.pubkey = w
    /\ last'.event.event.kind = "Registered"

\* C12: the workers map of the Gatekeeper holds exactly the pubkeys whose
\* Registered event of the pallet was processed: only that event creates a
\* record (registered, not mining), no step removes one, and no step clears
\* the registered flag of a record.
C12_RecordsOfRegistered ==
    [][/\ \A w \in Workers :
             w \in DOMAIN workers' <=> (w \in DOMAIN workers \/ RegisteredDelivered(w))
       /\ DOMAIN workers' \subseteq Workers
       /\ \A k \in DOMAIN workers : workers[k].state.registered
       /\ \A k \in DOMAIN workers' :
             /\ workers'[k].state.registered
             /\ workers'[k].state.pubkey = k
             /\ k \notin DOMAIN workers => IsNone(workers'[k].state.mining_state)]_vars

\* The pallet's MiningStart for worker 2 was processed while only worker 1
\* is registered: worker 2 has no record.
C12_Witness ==
    /\ pc = "processing"
    /\ last.op = "SystemEvent"
    /\ is_pallet(last.origin)
    /\ last.event.type = "WorkerEvent"
    /\ last.event.pubkey = 2
    /\ last.event.event.kind = "MiningStart"
    /\ DOMAIN workers = {1}
    /\ workers[1].state.registered

\* ------------------------------------------- properties of the System
\* C13: whenever the System holds a master key, the first key of the sealed
\* master-key history is that key (after the bootstrap of the first
\* gatekeeper, after a received key or history, after a rotation).
C13_SealedHeadIsMasterKey ==
    IsSome(system.master_key) =>
        /\ sealed /= <<>>
        /\ Head(sealed) = Unwrap(system.master_key)

\* The step hands a received history to handle_master_key_history
HistoryDelivered ==
    /\ last'.op = "Message"
    /\ is_gatekeeper(last'.origin)
    /\ last'.event.topic = "KeyDistribution"
    /\ last'.event.kind \in {"MasterKeyDistribution", "MasterKeyHistory"}
    /\ last'.event.dest = system.identity_key

\* The keys of the history a message carries
ReceivedHistory(event) ==
    IF event.kind = "MasterKeyDistribution"
    THEN <<event.encrypted_master_key.key>>
    ELSE [i \in 1..Len(event.encrypted_master_keys) |->
             event.encrypted_master_keys[i].key]

\* C14: master_key_history never gets shorter and changes only to a strictly
\* longer history; a received history that is not longer than the one held
\* changes nothing (nothing sealed, master_key_history and master_key as they
\* were, no restart), a longer one is sealed and replaces it.
C14_HistoryOnlyGrows ==
    [][/\ Len(system'.master_key_history) >= Len(system.master_key_history)
       /\ system'.master_key_history /= system.master_key_history =>
             Len(system'.master_key_history) > Len(system.master_key_history)
       /\ HistoryDelivered =>
             IF Len(ReceivedHistory(last'.event)) <= Len(system.master_key_history)
             THEN /\ system' = system
                  /\ sealed' = sealed
                  /\ pc' = "processing"
             ELSE /\ system'.master_key_history = ReceivedHistory(last'.event)
                  /\ sealed' = ReceivedHistory(last'.event)]_vars

\* A master key other than the one held arrived as a history of one key: the
\* history of one key stays and the tick goes on.
C14_Witness ==
    /\ pc = "processing"
    /\ last.op = "Message"
    /\ is_gatekeeper(last.origin)
    /\ last.event.kind = "MasterKeyDistribution"
    /\ last.event.dest = system.identity_key
    /\ Len(system.master_key_history) = 1
    /\ system.master_key_history[1] /= last.event.encrypted_master_key.key
    /\ sealed = system.master_key_history

\* The step is a call of verify_worker_key_challenge
VerifyCalled == last'.op = "VerifyWorkerKeyChallenge"

\* The payload presented is the one cached
PayloadCached(challenge) ==
    /\ IsSome(system.last_challenge)
    /\ Unwrap(system.last_challenge) = challenge.payload

\* The signature presented is one of the current identity key over the payload
SignedByIdentity(challenge) ==
    /\ challenge.signature.wellformed
    /\ challenge.signature.signer = system.identity_key
    /\ challenge.signature.data = challenge.payload

\* C15: verify_worker_key_challenge returns true iff a challenge is cached,
\* the payload presented is the cached one and the signature verifies under
\* the current identity key; a challenge verifies with success at most once,
\* and only the challenge issued last can verify.
C15_VerifiesOnce ==
    [][VerifyCalled =>
          /\ last'.ok <=> (PayloadCached(last'.challenge)
                              /\ SignedByIdentity(last'.challenge))
          /\ last'.ok =>
                /\ last'.challenge.payload \notin verified
                /\ issued /= <<>>
                /\ last'.challenge = issued[Len(issued)]]_vars

\* The second of two challenges issued was verified; the slot is empty.
C15_Witness ==
    /\ last.op = "VerifyWorkerKeyChallenge"
    /\ last.ok
    /\ Len(issued) = 2
    /\ verified = {issued[2].payload}
    /\ IsNone(system.last_challenge)

\* C16 as stated: verify_worker_key_challenge clears last_challenge when it
\* succeeds and also when it rejects a payload that is not the cached one.
C16_ClearedOnMismatch ==
    [][(VerifyCalled /\ IsSome(system.last_challenge)
           /\ (last'.ok \/ ~PayloadCached(last'.challenge)))
          => IsNone(system'.last_challenge)]_vars

\* C16, amended: last_challenge is cleared exactly when the payload
\* presented is the cached one, whether the signature then verifies or not;
\* a call with another payload leaves the cached challenge in place.
C16_ClearedWhenPayloadMatches ==
    [][VerifyCalled =>
          IF PayloadCached(last'.challenge)
          THEN IsNone(system'.last_challenge)
          ELSE system'.last_challenge = system.last_challenge]_vars

\* A payload that was never issued was rejected and the cached challenge is
\* still there.
C16_Witness ==
    /\ last.op = "VerifyWorkerKeyChallenge"
    /\ ~last.ok
    /\ IsSome(system.last_challenge)
    /\ Unwrap(system.last_challenge) /= last.challenge.payload
    /\ Unwrap(system.last_challenge) = issued[Len(issued)].payload

\* The engine exists and is registered on chain
EngineRegistered ==
    /\ IsSome(system.gatekeeper)
    /\ Unwrap(system.gatekeeper).registered_on_chain

\* The byte two hex digits stand for
HexValue(digit) == CHOOSE v \in 0..15 : HexDigits[v + 1] = digit
HexDecode(digits) == 16 * HexValue(digits[1]) + HexValue(digits[2])

\* C17: gatekeeper_status reports Active iff the engine exists and is
\* registered on chain, Dummy iff a master key is held and the engine is
\* absent or not registered, None otherwise; master_public_key is the hex of
\* the public key of the master key held, and empty when none is held.
C17_StatusOfRole ==
    LET status == gatekeeper_status(system) IN
    /\ status.role \in {"Active", "Dummy", "None"}
    /\ status.role = "Active" <=> EngineRegistered
    /\ status.role = "Dummy" <=> (IsSome(system.master_key) /\ ~EngineRegistered)
    /\ IF IsSome(system.master_key)
       THEN /\ Len(status.master_public_key) = 2
            /\ HexDecode(status.master_public_key) = Unwrap(system.master_key)
       ELSE status.master_public_key = <<>>

\* A worker that holds the master key saw the launch of another worker as
\* first gatekeeper: its engine exists, is not registered, and it reports
\* Dummy.
C17_Witness ==
    /\ last.op = "Message"
    /\ last.event.kind = "FirstGatekeeper"
    /\ last.event.pubkey /= system.identity_key
    /\ IsSome(system.gatekeeper)
    /\ ~Unwrap(system.gatekeeper).registered_on_chain
    /\ gatekeeper_status(system).role = "Dummy"
    /\ gatekeeper_status(system).master_public_key = <<"0", "b">>

\* The step delivers a MasterKeyRotation
RotationDelivered ==
    /\ last'.op = "Message"
    /\ last'.event.topic = "KeyDistribution"
    /\ last'.event.kind = "MasterKeyRotation"

\* What the rotation is rejected with, "Ok" if it is not
RotationVerdict(origin, event) ==
    IF origin.tag /= "Gatekeeper" THEN "BadOrigin"
    ELSE IF ~(/\ event.sig.wellformed
              /\ event.sig.signer = event.sender
              /\ event.sig.data = [rotation_id |-> event.rotation_id,
                                   secret_keys |-> event.secret_keys])
    THEN "BadSenderSignature"
    ELSE IF event.sender \notin chain THEN "MasterKeyLeakage"
    ELSE "Ok"

\* The step leaves the System as it was and the tick goes on
Ignored ==
    /\ pc' = "processing"
    /\ system' = system
    /\ sealed' = sealed
    /\ worker_state' = worker_state
    /\ sys_egress' = sys_egress
    /\ egress' = egress
    /\ workers' = workers
    /\ report' = report

\* C18: a MasterKeyRotation is rejected with BadOrigin if its origin is not
\* Gatekeeper, else with BadSenderSignature if sig is not a signature of
\* sender over data_be_signed(), else with MasterKeyLeakage if the chain does
\* not list sender as a gatekeeper; a rejected rotation changes neither
\* master_key nor master_key_history nor the engine, and the tick goes on.
C18_RotationRejected ==
    [][RotationDelivered =>
          /\ last'.result = RotationVerdict(last'.origin, last'.event)
          /\ last'.result /= "Ok" => Ignored]_vars

\* A rotation for this gatekeeper, signed by a sender the chain does not
\* list, was rejected: the master key is the old one.
C18_Witness ==
    /\ pc = "processing"
    /\ last.op = "Message"
    /\ last.event.kind = "MasterKeyRotation"
    /\ last.result = "MasterKeyLeakage"
    /\ system.identity_key \in DOMAIN last.event.secret_keys
    /\ IsSome(system.gatekeeper)
    /\ system.master_key = Some(11)
    /\ Unwrap(system.gatekeeper).master_key = 11

\* Whether the topic of the event admits the origin
Authorized(op, origin, event) ==
    IF op = "SystemEvent" THEN origin.tag = "Pallet"
    ELSE IF event.topic = "KeyDistribution" THEN origin.tag = "Gatekeeper"
    ELSE IF event.topic = "ClusterOperation"
    THEN event.kind = "DispatchKeys" => origin.tag = "Gatekeeper"
    ELSE origin.tag = "Pallet"

\* C19: an event whose origin its topic does not admit (pallet for
\* SystemEvent, PRuntimeManagementEvent, GatekeeperLaunch, GatekeeperChange
\* and ContractOperation; gatekeeper for KeyDistribution and the dispatch of
\* cluster keys) is ignored: no state of the System changes, nothing is
\* pushed to an egress, and the tick goes on.
C19_UnauthorizedIgnored ==
    [][(last'.op \in {"Message", "SystemEvent"}
           /\ ~Authorized(last'.op, last'.origin, last'.event))
          => Ignored]_vars

\* The step delivers a FirstGatekeeper or a GatekeeperRegistered
NewGatekeeperDelivered ==
    /\ last'.op = "Message"
    /\ last'.event.kind \in {"FirstGatekeeper", "GatekeeperRegistered"}

\* C20: a FirstGatekeeper or GatekeeperRegistered of the pallet whose pubkey
\* the chain storage does not list panics before anything changes (no master
\* key, no engine, nothing shared), with or without an engine; from another
\* origin the event is ignored without panic, whatever the chain lists.
C20_UnlistedPanics ==
    [][NewGatekeeperDelivered =>
          /\ (is_pallet(last'.origin) /\ last'.event.pubkey \notin chain) =>
                /\ pc' = "panicked"
                /\ system' = system
                /\ sealed' = sealed
                /\ sys_egress' = sys_egress
                /\ egress' = egress
          /\ ~is_pallet(last'.origin) => Ignored]_vars

\* A worker without engine panicked on the GatekeeperRegistered of a pubkey
\* the chain does not list.
C20_Witness ==
    /\ pc = "panicked"
    /\ last.op = "Message"
    /\ last.event.kind = "GatekeeperRegistered"
    /\ is_pallet(last.origin)
    /\ last.event.pubkey \notin chain
    /\ IsNone(system.gatekeeper)
    /\ IsNone(system.master_key)

\* The step delivers a RetirePRuntime of the pallet
RetireDelivered ==
    /\ last'.op = "Message"
    /\ last'.event.kind = "RetirePRuntime"
    /\ is_pallet(last'.origin)

\* A version as one number; the components stay below 100
VersionNumber(v) == (v[1] * 100 + v[2]) * 100 + v[3]

\* The local app version meets the condition
Retires(condition) ==
    IF condition.kind = "VersionIs"
    THEN VersionNumber(AppVersion) = VersionNumber(condition.version)
    ELSE VersionNumber(AppVersion) < VersionNumber(condition.version)

\* Some recorded condition retires the local app version
Retired(retired_versions) ==
    \E i \in 1..Len(retired_versions) : Retires(retired_versions[i])

\* C21: a RetirePRuntime(condition) of the pallet is appended to
\* retired_versions, which keeps what it holds as long as the process lives;
\* after the append the process aborts iff the local app version is some
\* recorded VersionIs or lexicographically less than some recorded
\* VersionLessThan, and else goes on; on_restored runs the same check.
C21_RetiresIffMatched ==
    [][/\ last'.op /= "Restart" =>
             /\ Len(system'.retired_versions) >= Len(system.retired_versions)
             /\ SubSeq(system'.retired_versions, 1, Len(system.retired_versions))
                   = system.retired_versions
       /\ RetireDelivered =>
             /\ system'.retired_versions =
                   Append(system.retired_versions, last'.event.condition)
             /\ pc' = IF Retired(system'.retired_versions) THEN "aborted"
                      ELSE "processing"
       /\ last'.op = "Restored" =>
             /\ system' = system
             /\ pc' = IF Retired(system.retired_versions) THEN "aborted" ELSE pc
       /\ pc' = "aborted" => (RetireDelivered \/ last'.op = "Restored")]_vars

\* Version 1.0.0 recorded "less than 0.9.9" and "is 1.0.1", kept running, and
\* was restored from a checkpoint with both conditions recorded.
C21_Witness ==
    /\ pc = "idle"
    /\ last.op = "Restored"
    /\ Len(system.retired_versions) = 2
    /\ \E i \in 1..2 : system.retired_versions[i] = VersionLessThan(<<0, 9, 9>>)
    /\ \E i \in 1..2 : system.retired_versions[i].kind = "VersionIs"

\* The block of number n on the chain that ends in the block hash
AncestorAt(hash, n) ==
    IF hash \in ForkHashes /\ n > ForkPoint THEN ForkBase + n ELSE n

Number(hash) == IF hash \in ForkHashes THEN hash - ForkBase ELSE hash

Known(hash) == hash \in BestHashes \cup ForkHashes

PaidOut(k) == "live_responsive" \in seen[k]
SlashApplied(k) == workers'[k].unresponsive
IdleApplied(k) == ~workers'[k].unresponsive /\ ~workers'[k].heartbeat_flag

\* C23: the economic cases exclude each other: in a block, a worker with
\* mining_state present gets at most one of update_v_idle, the payout of
\* update_v_heartbeat and update_v_slash; a worker paid out for a heartbeat in
\* a block is not slashed in that block.
C23_OneUpdatePerBlock ==
    [][(last'.op = "EndTick" /\ pc' = "idle") =>
          \A k \in DOMAIN workers :
             IsSome(workers'[k].state.mining_state) =>
                /\ ~(PaidOut(k) /\ SlashApplied(k))
                /\ ~(PaidOut(k) /\ IdleApplied(k))
                /\ ~(SlashApplied(k) /\ IdleApplied(k))]_vars

Unaccepted ==
    \/ /\ last'.op = "MiningReport"
       /\ last'.origin.tag /= "Worker"
    \/ /\ last'.op = "MiningReport"
       /\ last'.origin.tag = "Worker"
       /\ last'.origin.pubkey \notin DOMAIN workers
    \/ /\ last'.op = "SystemEvent"
       /\ last'.origin.tag /= "Pallet"

\* C25: the Gatekeeper ignores, without panic, a MiningReportEvent whose
\* origin is not a worker, a Heartbeat of a pubkey that is not in the workers
\* map, and a SystemEvent whose origin is not a pallet: no worker record,
\* queue, flag, tokenomic value or report entry changes.
C25_UnacceptedIgnored ==
    [][Unaccepted =>
          /\ pc' = "processing"
          /\ workers' = workers
          /\ report' = report
          /\ sum_share' = sum_share
          /\ egress' = egress]_vars

\* A worker that never registered sent a heartbeat and the tick goes on.
C25_Witness ==
    /\ pc = "processing"
    /\ last.op = "MiningReport"
    /\ last.origin.tag = "Worker"
    /\ last.origin.pubkey \notin DOMAIN workers
    /\ report = ReportNew(block.block_number, block.now_ms)

\* C26: the master-key history is append-only: whenever master_key_history
\* changes (self-generation, MasterKeyDistribution, MasterKeyHistory), every
\* key of the previous history is in the new one at the same position.
C26_HistoryAppendOnly ==
    [][system'.master_key_history /= system.master_key_history =>
          /\ Len(system'.master_key_history) >= Len(system.master_key_history)
          /\ SubSeq(system'.master_key_history, 1, Len(system.master_key_history))
                = system.master_key_history]_vars

\* The step delivers the pallet's FirstGatekeeper of a pubkey the chain lists
LaunchDelivered ==
    /\ last'.op = "Message"
    /\ last'.event.kind = "FirstGatekeeper"
    /\ is_pallet(last'.origin)
    /\ last'.event.pubkey \in chain

\* C27: on FirstGatekeeper(event) of the pallet with event.pubkey listed on
\* chain, a master key is generated (the history becomes that single key and
\* is sealed) only if event.pubkey is this worker and no master key is held,
\* and a held master key is never replaced; RegistryEvent::MasterPubkey with
\* the held key's public key is pushed iff event.pubkey is this worker; the
\* engine exists afterwards iff a master key is then held; the engine is
\* registered on chain by this event iff event.pubkey is this worker.
C27_FirstGatekeeperLaunch ==
    [][LaunchDelivered =>
          LET mine == last'.event.pubkey = system.identity_key IN
          /\ system'.master_key_history /= system.master_key_history =>
                /\ mine
                /\ IsNone(system.master_key)
                /\ Len(system'.master_key_history) = 1
                /\ system'.master_key = Some(system'.master_key_history[1])
                /\ sealed' = system'.master_key_history
          /\ IsSome(system.master_key) => system'.master_key = system.master_key
          /\ IF mine
             THEN /\ IsSome(system'.master_key)
                  /\ sys_egress' =
                        Append(sys_egress,
                               [op |-> "MasterPubkey",
                                master_pubkey |-> Unwrap(system'.master_key)])
             ELSE sys_egress' = sys_egress
          /\ IsSome(system'.gatekeeper) <=> IsSome(system'.master_key)
          /\ mine => /\ IsSome(system'.gatekeeper)
                     /\ Unwrap(system'.gatekeeper).registered_on_chain
          /\ (~mine /\ IsSome(system'.gatekeeper)) =>
                Unwrap(system'.gatekeeper).registered_on_chain
                   = (/\ IsSome(system.gatekeeper)
                      /\ Unwrap(system.gatekeeper).registered_on_chain)]_vars

\* The step delivers a dispatch of cluster keys with gatekeeper origin
DispatchDelivered ==
    /\ last'.op = "Message"
    /\ last'.event.kind = "DispatchKeys"
    /\ last'.origin.tag = "Gatekeeper"

\* C28: on a dispatch of cluster keys from gatekeeper origin with this worker
\* among the recipients, an existing cluster of that id stays as it is, with
\* its key, and ClusterDeploymentFailed{id} is pushed (DuplicatedClusterDeploy);
\* else the cluster is created with the decrypted key and ClusterDeployed{id,
\* pubkey} is pushed.  One report is pushed per such event, none when this
\* worker is no recipient.
C28_ClusterDeployedOnce ==
    [][DispatchDelivered =>
          LET event == last'.event
              me == system.identity_key
              clusters == system.contract_clusters
          IN  IF me \notin DOMAIN event.secret_keys
              THEN /\ sys_egress' = sys_egress
                   /\ system' = system
              ELSE IF event.cluster \in DOMAIN clusters
              THEN /\ system' = system
                   /\ last'.result = "DuplicatedClusterDeploy"
                   /\ sys_egress' = Append(sys_egress,
                         [op |-> "ClusterDeploymentFailed", id |-> event.cluster])
              ELSE /\ DOMAIN system'.contract_clusters =
                         DOMAIN clusters \cup {event.cluster}
                   /\ system'.contract_clusters[event.cluster].key =
                         event.secret_keys[me].key
                   /\ \A c \in DOMAIN clusters :
                         system'.contract_clusters[c] = clusters[c]
                   /\ last'.result = "Ok"
                   /\ sys_egress' = Append(sys_egress,
                         [op |-> "ClusterDeployed", id |-> event.cluster,
                          pubkey |-> event.secret_keys[me].key])]_vars

\* A second dispatch for the cluster, with another key, was answered with
\* ClusterDeploymentFailed; the cluster has the key of the first.
C28_Witness ==
    /\ last.op = "Message"
    /\ last.event.kind = "DispatchKeys"
    /\ last.result = "DuplicatedClusterDeploy"
    /\ system.identity_key \in DOMAIN last.event.secret_keys
    /\ system.contract_clusters[last.event.cluster].key
          /= last.event.secret_keys[system.identity_key].key
    /\ sys_egress /= <<>>
    /\ sys_egress[Len(sys_egress)] =
          [op |-> "ClusterDeploymentFailed", id |-> last.event.cluster]

\* The tick's position after each kind of step
TickOrder ==
    /\ last'.op \in {"Message", "SystemEvent"} =>
          pc = "processing" /\ pc' \in {"processing", "panicked", "aborted"}
    /\ last'.op = "WorkerBlockEnd" => pc = "processing" /\ pc' = "block_end"
    /\ last'.op = "GatekeeperProcessMessages" =>
          pc = "block_end" /\ pc' = "contracts"
    /\ last'.op = "ContractCommands" => pc = "contracts" /\ pc' = "idle"
    /\ pc' = "idle" => last'.op \in {"ContractCommands", "TakeEgress"}

\* What each step of the tick touches
TickEffects ==
    /\ last'.op \in {"Message", "SystemEvent", "WorkerBlockEnd"} =>
          workers' = workers /\ report' = report
    /\ last'.op \in {"SystemEvent", "WorkerBlockEnd"} => egress' = egress
    /\ last'.op = "SystemEvent" =>
          gk_queue' = IF IsSome(system.gatekeeper)
                      THEN Append(gk_queue, [origin |-> last'.origin,
                                             event |-> last'.event])
                      ELSE gk_queue
    /\ last'.op = "WorkerBlockEnd" => gk_queue' = gk_queue /\ system' = system
    /\ last'.op = "GatekeeperProcessMessages" =>
          /\ worker_state' = worker_state /\ sys_egress' = sys_egress
          /\ system' = system
          /\ gk_queue' = <<>>
          /\ IsNone(system.gatekeeper) =>
                workers' = workers /\ report' = report /\ egress' = egress
          /\ IsSome(system.gatekeeper) =>
                /\ egress' /= <<>>
                /\ egress'[Len(egress')] = RandomNumber(block)
    /\ last'.op = "ContractCommands" => gk_queue = <<>>

\* C29: in a System tick every pending message is handled before the
\* block-end processing of the WorkerState, which comes before
\* gatekeeper.process_messages, which comes before the contracts' commands; a
\* handler's error for one message is logged and stops neither the later
\* messages of the tick nor the block-end steps.
C29_TickInOrder ==
    [][/\ TickOrder
       /\ TickEffects
       /\ (last'.op = "Message" /\ last'.result /= "Ok") =>
             pc' = "processing"]_vars

\* A tick in which a dispatch was refused with an error, a later dispatch was
\* carried out, and every block-end step ran.
C29_Witness ==
    /\ pc = "idle"
    /\ last.op = "ContractCommands"
    /\ Len(sys_egress) = 2
    /\ sys_egress[1].op = "ClusterDeploymentFailed"
    /\ sys_egress[2].op = "ClusterDeployed"
    /\ IsSome(system.gatekeeper)
    /\ egress /= <<>>

\* The step changed the state of a mining state that stays present
MiningStateFlipped ==
    /\ IsSome(worker_state.mining_state)
    /\ IsSome(worker_state'.mining_state)
    /\ Unwrap(worker_state.mining_state).state /=
          Unwrap(worker_state'.mining_state).state

\* The step delivered a WorkerEvent of one of these kinds to this worker
Addressed(kinds) ==
    /\ last'.op = "SystemEvent"
    /\ is_pallet(last'.origin)
    /\ last'.event.type = "WorkerEvent"
    /\ last'.event.pubkey = worker_state.pubkey
    /\ last'.event.event.kind \in kinds

MiningIs(ws, state) ==
    IsSome(ws.mining_state) /\ Unwrap(ws.mining_state).state = state

\* MiningEnterUnresponsive outside Mining and MiningExitUnresponsive outside
\* Paused change nothing of the WorkerState and report nothing
UnexpectedIgnored ==
    /\ (Addressed({"MiningEnterUnresponsive"})
          /\ ~MiningIs(worker_state, "Mining")) =>
          worker_state' = worker_state /\ sys_egress' = sys_egress
    /\ (Addressed({"MiningExitUnresponsive"})
          /\ ~MiningIs(worker_state, "Paused")) =>
          worker_state' = worker_state /\ sys_egress' = sys_egress

\* The statement as written: only the two unresponsive events move a present
\* mining state between Mining and Paused
C30_OnlyUnresponsiveEvents ==
    [][/\ MiningStateFlipped =>
             Addressed({"MiningEnterUnresponsive", "MiningExitUnresponsive"})
       /\ UnexpectedIgnored]_vars

\* C30: a present mining_state moves from Mining to Paused only by a
\* MiningEnterUnresponsive addressed to this worker, and from Paused to Mining
\* only by a MiningExitUnresponsive or a MiningStart addressed to it; the two
\* unresponsive events change nothing but the state field, and MiningStart
\* replaces the whole mining state by a fresh one in state Mining.
\* MiningEnterUnresponsive outside Mining and MiningExitUnresponsive outside
\* Paused (mining_state = None included) leave the WorkerState unchanged.
C30_PausedByUnresponsiveOrRestart ==
    [][/\ MiningStateFlipped =>
            \/ /\ Addressed({"MiningEnterUnresponsive"})
               /\ MiningIs(worker_state, "Mining")
               /\ worker_state' =
                     [worker_state EXCEPT !.mining_state[1].state = "Paused"]
            \/ /\ Addressed({"MiningExitUnresponsive"})
               /\ MiningIs(worker_state, "Paused")
               /\ worker_state' =
                     [worker_state EXCEPT !.mining_state[1].state = "Mining"]
            \/ /\ Addressed({"MiningStart"})
               /\ MiningIs(worker_state, "Paused")
               /\ worker_state' =
                     [worker_state EXCEPT !.mining_state =
                        Some([session_id |-> last'.event.event.session_id,
                              state |-> "Mining",
                              start_time |-> block.now_ms,
                              start_iter |-> bench_iterations(block)])]
       /\ UnexpectedIgnored]_vars

\* The first message the worker got, a MiningEnterUnresponsive, paused it: no
\* initial state is paused.
C30_Witness ==
    /\ n_msgs = 1
    /\ last.op = "SystemEvent"
    /\ is_pallet(last.origin)
    /\ last.event.type = "WorkerEvent"
    /\ last.event.pubkey = worker_state.pubkey
    /\ last.event.event.kind = "MiningEnterUnresponsive"
    /\ MiningIs(worker_state, "Paused")
    /\ \A s \in InitStates : ~MiningIs(s.worker_state, "Paused")

\* The step delivered, from the pallet, a WorkerEvent of one of these kinds
WorkerEventDelivered(kinds) ==
    /\ last'.op = "SystemEvent"
    /\ is_pallet(last'.origin)
    /\ last'.event.type = "WorkerEvent"
    /\ last'.event.event.kind \in kinds

\* The statement as written: a MiningStop for a worker whose mining_state is
\* None changes neither the worker's own state machine nor the Gatekeeper's
\* replica, and produces no report entry and no egress.
C31_MiningStopWhenNotMining ==
    [][(/\ WorkerEventDelivered({"MiningStop"})
        /\ last'.event.pubkey \in DOMAIN workers
        /\ IsNone(workers[last'.event.pubkey].state.mining_state)
        /\ last'.event.pubkey = worker_state.pubkey =>
              IsNone(worker_state.mining_state))
       => /\ worker_state' = worker_state
          /\ sys_egress' = sys_egress
          /\ workers' = workers
          /\ report' = report
          /\ egress' = egress]_vars

\* C31: a MiningStop for a worker whose mining_state is None leaves the
\* WorkerState unchanged, in the worker's own state machine and in the
\* Gatekeeper's replica, and puts nothing on the worker's egress; the
\* Gatekeeper still appends SettleInfo{pubkey, v, payout 0} to the block's
\* report for a worker it knows, and nothing else.
C31_MiningStopSettlesOnly ==
    [][(/\ WorkerEventDelivered({"MiningStop"})
        /\ last'.event.pubkey \in DOMAIN workers
        /\ IsNone(workers[last'.event.pubkey].state.mining_state)
        /\ last'.event.pubkey = worker_state.pubkey =>
              IsNone(worker_state.mining_state))
       => /\ worker_state' = worker_state
          /\ sys_egress' = sys_egress
          /\ workers' = workers
          /\ egress' = egress
          /\ report' = [report EXCEPT !.settle =
                Append(@, SettleInfo(last'.event.pubkey,
                                     workers[last'.event.pubkey].tokenomic.v,
                                     0))]]_vars

\* A worker on record that never started mining was sent a MiningStop, the
\* first message of its block: the report holds its settlement of nothing.
C31_Witness ==
    /\ last.op = "SystemEvent"
    /\ is_pallet(last.origin)
    /\ last.event.type = "WorkerEvent"
    /\ last.event.event.kind = "MiningStop"
    /\ last.event.pubkey \in DOMAIN workers
    /\ workers[last.event.pubkey].tokenomic.v_update_at = 0
    /\ IsNone(workers[last.event.pubkey].state.mining_state)
    /\ report.settle = <<SettleInfo(last.event.pubkey, 0, 0)>>

BenchReports(out) == SelectSeq(out, LAMBDA c : c.op = "bench_report")

\* The running benchmark has lasted its duration at this block
BenchDue ==
    /\ IsSome(worker_state.bench_state)
    /\ block.block_number - Unwrap(worker_state.bench_state).start_block
          >= Unwrap(worker_state.bench_state).duration

\* C32: at block end a present bench_state is cleared and exactly one
\* bench_report(start_time, iterations - start_iter) is emitted iff
\* block_number - start_block >= duration, bench_pause following iff
\* mining_state is None as well; before that block the bench_state stays set,
\* no other step emits a bench report, and a BenchStart for this worker
\* replaces a running bench_state by one that starts at the current block.
C32_BenchReportWhenDue ==
    [][/\ (last'.op = "EndTick" /\ BenchDue) =>
            LET b == Unwrap(worker_state.bench_state)
                r == on_block_processed(worker_state, block,
                                        bench_iterations(block))
            IN  /\ worker_state' = [worker_state EXCEPT !.bench_state = None]
                /\ sys_egress' =
                      Append(sys_egress,
                             CbReport(b.start_time,
                                      bench_iterations(block) - b.start_iter))
                /\ r.calls = <<CbReport(b.start_time,
                                        bench_iterations(block) - b.start_iter)>>
                             \o (IF IsNone(worker_state.mining_state)
                                 THEN <<CbPause>> ELSE <<>>)
       /\ (last'.op = "EndTick" /\ ~BenchDue) =>
            /\ worker_state' = worker_state
            /\ sys_egress' = sys_egress
            /\ on_block_processed(worker_state, block,
                                  bench_iterations(block)).calls = <<>>
       /\ ~(last'.op = "EndTick" /\ BenchDue) =>
            BenchReports(sys_egress') \in
                {BenchReports(sys_egress), <<>>}
       /\ (WorkerEventDelivered({"BenchStart"})
             /\ last'.event.pubkey = worker_state.pubkey) =>
            worker_state'.bench_state =
                Some([start_block |-> block.block_number,
                      start_time |-> block.now_ms,
                      start_iter |-> bench_iterations(block),
                      duration |-> last'.event.event.duration])]_vars

\* A block ended exactly duration blocks after the benchmark started: the
\* report went out and the benchmark is cleared.
C32_Witness ==
    /\ last.op = "EndTick"
    /\ IsNone(worker_state.bench_state)
    /\ Len(BenchReports(sys_egress)) = 1
    /\ BenchReports(sys_egress)[1].start_time = block.now_ms - 11 * BlockMs
    /\ BenchReports(sys_egress)[1].iterations = 11 * ItersPerBlock

\* C33: in the Gatekeeper a MiningStart{session_id, init_v} for a known worker
\* sets v and v_last to init_v, v_update_at and challenge_time_last to the
\* block's now_ms, iteration_last to 0 and p_instant to p_bench, keeps p_bench
\* and confidence_level, clears unresponsive and leaves waiting_heartbeats as
\* it was.
C33_MiningStartResetsTokenomic ==
    [][(WorkerEventDelivered({"MiningStart"})
          /\ last'.event.pubkey \in DOMAIN workers) =>
         LET p == last'.event.pubkey
             old == workers[p]
             new == workers'[p]
         IN  /\ new.tokenomic.v = last'.event.event.init_v
             /\ new.tokenomic.v_last = last'.event.event.init_v
             /\ new.tokenomic.v_update_at = block.now_ms
             /\ new.tokenomic.challenge_time_last = block.now_ms
             /\ new.tokenomic.iteration_last = 0
             /\ new.tokenomic.p_instant = old.tokenomic.p_bench
             /\ new.tokenomic.p_bench = old.tokenomic.p_bench
             /\ new.tokenomic.confidence_level = old.tokenomic.confidence_level
             /\ new.unresponsive = FALSE
             /\ new.waiting_heartbeats = old.waiting_heartbeats]_vars

\* A worker with a challenge of its first session still pending and a
\* benchmark score on record was started again, in session 2.
C33_Witness ==
    /\ last.op = "SystemEvent"
    /\ is_pallet(last.origin)
    /\ last.event.type = "WorkerEvent"
    /\ last.event.event.kind = "MiningStart"
    /\ last.event.event.session_id = 2
    /\ last.event.pubkey \in DOMAIN workers
    /\ LET w == workers[last.event.pubkey]
       IN  /\ w.waiting_heartbeats /= <<>>
           /\ w.tokenomic.v = InitV(2)
           /\ w.tokenomic.p_bench > 0
           /\ w.tokenomic.p_instant = w.tokenomic.p_bench
           /\ w.tokenomic.v_update_at = block.now_ms

\* C34: a WorkerEvent carrying pubkey P affects only worker P: the
\* Gatekeeper's record of every other worker (replicated WorkerState,
\* waiting_heartbeats, unresponsive, tokenomic) is unchanged, and a worker's
\* own state machine ignores a WorkerEvent of another pubkey: no state change,
\* no callback.
C34_OnlyTheAddressedWorker ==
    [][WorkerEventDelivered({"Registered", "BenchStart", "BenchScore",
                             "MiningStart", "MiningStop",
                             "MiningEnterUnresponsive",
                             "MiningExitUnresponsive"}) =>
         /\ \A q \in DOMAIN workers :
               q /= last'.event.pubkey =>
                  /\ q \in DOMAIN workers'
                  /\ workers'[q] = workers[q]
         /\ DOMAIN workers' \subseteq DOMAIN workers \cup {last'.event.pubkey}
         /\ last'.event.pubkey /= worker_state.pubkey =>
               /\ worker_state' = worker_state
               /\ sys_egress' = sys_egress
               /\ process_event(worker_state, block, last'.event,
                                bench_iterations(block)).calls = <<>>]_vars

\* Worker 2 was started while worker 1, mining with a challenge pending, is
\* on record next to it.
C34_Witness ==
    /\ last.op = "SystemEvent"
    /\ is_pallet(last.origin)
    /\ last.event.type = "WorkerEvent"
    /\ last.event.pubkey = 2
    /\ last.event.event.kind = "MiningStart"
    /\ DOMAIN workers = {1, 2}
    /\ workers[2].tokenomic.v_update_at = block.now_ms
    /\ workers[1].tokenomic.v_update_at < block.now_ms
    /\ workers[1].waiting_heartbeats /= <<>>
    /\ IsSome(workers[1].state.mining_state)
    /\ IsSome(worker_state.mining_state)

Pos(seq, x) == CHOOSE i \in 1..Len(seq) : seq[i] = x

Listed(seq, x) == \E i \in 1..Len(seq) : seq[i] = x

Ascending(seq) == \A i, j \in 1..Len(seq) : i < j => seq[i] < seq[j]

\* The statement as written, for recovered_to_online: of two workers whose
\* heartbeats recovered them in one block, the one whose heartbeat came
\* earlier is listed first.
C35_ListsInObservedOrder ==
    [][(/\ last'.op = "EndTick"
        /\ last.op = "MiningReport"
        /\ last.origin.tag = "Worker")
       => \A b \in Workers \ {last.origin.pubkey} :
             (/\ "live_unresponsive" \in seen[b]
              /\ Listed(report'.recovered_to_online, b)
              /\ Listed(report'.recovered_to_online, last.origin.pubkey))
             => Pos(report'.recovered_to_online, b)
                   < Pos(report'.recovered_to_online, last.origin.pubkey)]_vars

\* C35: within a block, settle lists its entries in the order in which the
\* heartbeats and MiningStops that caused them were processed; offline and
\* recovered_to_online are filled at block end only, by the pass over the
\* worker map, and list the workers in ascending pubkey order whatever the
\* order of the messages of the block.
C35_ListsInProcessingOrder ==
    [][/\ last'.op \in {"SystemEvent", "MiningReport"} =>
            /\ report'.offline = <<>>
            /\ report'.recovered_to_online = <<>>
            /\ \/ report'.settle = report.settle
               \/ /\ Len(report'.settle) = Len(report.settle) + 1
                  /\ SubSeq(report'.settle, 1, Len(report.settle)) = report.settle
                  /\ report'.settle[Len(report'.settle)].pubkey =
                        IF last'.op = "MiningReport" THEN last'.origin.pubkey
                        ELSE last'.event.pubkey
       /\ last'.op = "EndTick" =>
            /\ report'.settle = report.settle
            /\ Ascending(report'.offline)
            /\ Ascending(report'.recovered_to_online)
            /\ \A w \in DOMAIN workers :
                  /\ Listed(report'.offline, w) <=>
                        (~workers[w].unresponsive /\ workers'[w].unresponsive)
                  /\ Listed(report'.recovered_to_online, w) <=>
                        (workers[w].unresponsive /\ ~workers'[w].unresponsive)]_vars

\* A block in which the heartbeats of both unresponsive workers arrived has
\* ended: the report lists worker 1, then worker 2, as recovered.
C35_Witness ==
    /\ last.op = "EndTick"
    /\ report.recovered_to_online = <<1, 2>>
    /\ "live_unresponsive" \in seen[1]
    /\ "live_unresponsive" \in seen[2]
    /\ egress /= <<>>
    /\ egress[Len(egress)] = report

\* The fields on which a replica and the worker's own WorkerState are compared
Visible(ws) ==
    [registered |-> ws.registered,
     mining |-> IF IsNone(ws.mining_state) THEN <<>>
                ELSE <<Unwrap(ws.mining_state).session_id,
                       Unwrap(ws.mining_state).state>>,
     bench |-> IsSome(ws.bench_state)]

Recorded == worker_state.pubkey \in DOMAIN workers

ReplicaAgrees == Visible(workers[worker_state.pubkey].state) = Visible(worker_state)

Heartbeats(out) == SelectSeq(out, LAMBDA c : c.op = "heartbeat")

\* The statement as written: whatever the stream, the Gatekeeper's replica of
\* this worker agrees with the worker's own state
C36_ReplicaAlwaysAgrees == Recorded => ReplicaAgrees

\* C36: for a stream of pallet SystemEvents delivered to both, once the
\* Gatekeeper's replica of worker W agrees with W's own WorkerState on
\* registered, on the presence, session_id and Active/Paused state of
\* mining_state and on the presence of bench_state, it agrees after every
\* further event and block end, and the replica created by a Registered that
\* is the first event of W agrees; while they agree the Gatekeeper enqueues a
\* challenge block for W exactly when W emits a Heartbeat for that block.
C36_ReplicaAgreesOnceInStep ==
    [][/\ (Recorded /\ ReplicaAgrees
             /\ last'.op \in {"SystemEvent", "MiningReport", "EndTick"}
             /\ pc' /= "panicked") =>
            /\ worker_state'.pubkey \in DOMAIN workers'
            /\ Visible(workers'[worker_state.pubkey].state) = Visible(worker_state')
       /\ (~Recorded /\ worker_state = WorkerStateNew(worker_state.pubkey)
             /\ worker_state.pubkey \in DOMAIN workers') =>
            Visible(workers'[worker_state.pubkey].state) = Visible(worker_state')
       /\ (Recorded /\ ReplicaAgrees /\ last'.op = "SystemEvent") =>
            LET q == workers[worker_state.pubkey].waiting_heartbeats
                q2 == workers'[worker_state.pubkey].waiting_heartbeats
                h == Heartbeats(sys_egress)
                h2 == Heartbeats(sys_egress')
            IN  \/ q2 = q /\ h2 = h
                \/ /\ q2 = Append(q, block.block_number)
                   /\ Len(h2) = Len(h) + 1
                   /\ SubSeq(h2, 1, Len(h)) = h
                   /\ h2[Len(h2)].challenge_block = block.block_number]_vars

\* A challenge hit this worker while its replica agreed with it: the worker
\* reported a heartbeat for the block and the replica queued the same block.
C36_Witness ==
    /\ Recorded
    /\ ReplicaAgrees
    /\ last.op = "SystemEvent"
    /\ last.event.type = "HeartbeatChallenge"
    /\ Heartbeats(sys_egress) /= <<>>
    /\ Heartbeats(sys_egress)[Len(Heartbeats(sys_egress))].challenge_block =
          block.block_number
    /\ workers[worker_state.pubkey].waiting_heartbeats /= <<>>
    /\ LET q == workers[worker_state.pubkey].waiting_heartbeats
       IN  q[Len(q)] = block.block_number

\* The statement as written: after a block end every mining worker whose
\* oldest pending challenge is out of the window is unresponsive
C37_OverdueIsUnresponsive ==
    (pc = "idle" /\ last.op = "EndTick") =>
        \A k \in DOMAIN workers :
            (Mining(k) /\ Overdue(k)) => workers[k].unresponsive

\* C37: at the end of every Gatekeeper tick, every worker with mining_state
\* present whose oldest pending challenge is more than
\* HEARTBEAT_TOLERANCE_WINDOW blocks older than the current block is marked
\* unresponsive, except a worker that was unresponsive and is recovered by a
\* heartbeat in this block: it ends the block responsive and reported as
\* recovered, and the overdue challenge counts at the next block end.
C37_OverdueUnlessRecovered ==
    [][last'.op = "EndTick" =>
          \A k \in DOMAIN workers :
             (Mining(k) /\ Overdue(k)) =>
                IF workers[k].unresponsive /\ workers[k].heartbeat_flag
                THEN /\ ~workers'[k].unresponsive
                     /\ Count(report'.recovered_to_online, k) = 1
                     /\ Count(report'.offline, k) = 0
                ELSE workers'[k].unresponsive]_vars

\* A block ended with a mining worker that had been responsive and whose
\* oldest pending challenge is out of the window: it is unresponsive and the
\* report names it offline.
C37_Witness ==
    /\ pc = "idle"
    /\ last.op = "EndTick"
    /\ \E k \in DOMAIN workers :
          /\ Mining(k)
          /\ Overdue(k)
          /\ workers[k].unresponsive
          /\ Count(report.offline, k) = 1

\* The step delivered, from the pallet, this worker's unregistration
UnregisteredDelivered ==
    /\ last'.op = "Message"
    /\ is_pallet(last'.origin)
    /\ last'.event.kind = "GatekeeperUnregistered"
    /\ last'.event.pubkey = system.identity_key

\* C38: in every reachable System state a Gatekeeper engine implies a master
\* key; unregistering this worker as gatekeeper clears both together and
\* leaves master_key_history and the sealed file untouched.
C38_EngineImpliesMasterKey ==
    /\ [](IsSome(system.gatekeeper) => IsSome(system.master_key))
    /\ [][UnregisteredDelivered =>
            /\ IsNone(system'.gatekeeper)
            /\ IsNone(system'.master_key)
            /\ system'.master_key_history = system.master_key_history
            /\ sealed' = sealed]_vars

\* This worker, a gatekeeper with a sealed key, has just been unregistered:
\* engine and key are gone, history and file are there.
C38_Witness ==
    /\ last.op = "Message"
    /\ is_pallet(last.origin)
    /\ last.event.kind = "GatekeeperUnregistered"
    /\ last.event.pubkey = system.identity_key
    /\ n_msgs = 1
    /\ IsNone(system.gatekeeper)
    /\ IsNone(system.master_key)
    /\ system.master_key_history /= <<>>
    /\ sealed /= <<>>
    /\ \E s \in SysInitStates :
          /\ IsSome(s.gatekeeper) /\ IsSome(s.master_key)
          /\ s.master_key_history = system.master_key_history

\* The launch step got as far as init_gatekeeper: a master key is held once
\* the first gatekeeper's key generation is over
InitGatekeeperReached ==
    /\ LaunchDelivered
    /\ IsSome(system.master_key) \/ IsSome(system'.master_key)

\* C39: init_gatekeeper is only ever reached with a master key held and with
\* no Gatekeeper engine present, so neither of its two assertions fails,
\* however many FirstGatekeeper events are delivered and whenever.
C39_InitGatekeeperAssertionsHold ==
    [][InitGatekeeperReached =>
          /\ IsSome(system'.master_key)
          /\ IsNone(system.gatekeeper)
          /\ pc' /= "panicked"]_vars

\* The step delivered, from a gatekeeper, a master key addressed to this worker
DistributionDelivered ==
    /\ last'.op = "Message"
    /\ is_gatekeeper(last'.origin)
    /\ last'.event.kind = "MasterKeyDistribution"
    /\ last'.event.dest = system.identity_key

\* C40: a MasterKeyDistribution from gatekeeper origin addressed to this
\* worker, processed while it holds no master key, makes the decrypted key its
\* master key before the restart is requested, also when the worker held a
\* master key earlier and was unregistered since.
C40_DistributedKeyAdopted ==
    [][(DistributionDelivered /\ IsNone(system.master_key)) =>
          /\ system'.master_key = Some(last'.event.encrypted_master_key.key)
          /\ pc' = "panicked"]_vars
====
